---- MODULE Spec2Model ----
(***************************************************************************)
(* Session resume picker of codex-rs/tui/src/sessions_picker.rs: the       *)
(* rollout files on disk, the discovered entries, the displayed rows and   *)
(* the key-event loop of run_sessions_picker_app.                          *)
(*                                                                         *)
(* Strings are sequences of one-character strings.  Option<T> is a         *)
(* sequence of length at most one: <<>> is None, <<x>> is Some(x).         *)
(* Row indices are 0-based as in the source; sequences are 1-based.        *)
(***************************************************************************)
EXTENDS Integers, Sequences, FiniteSets, TLC

\* ------------------------------------------------------------------ bounds
MaxSessions == 3
MaxHeight == 2
MaxFilter == 2
MaxName == 1
SlotsPerDay == 2

\* ------------------------------------------------------- option and strings
None == <<>>
Some(x) == <<x>>
IsSome(o) == Len(o) > 0
Unwrap(o) == o[1]

Min(a, b) == IF a < b THEN a ELSE b
Max(a, b) == IF a > b THEN a ELSE b

\* characters the operator can type into the filter or the rename buffer
TextChars == {"a", "B", " "}
\* characters that are commands in Browsing
CommandChars == {"r", "d", "u", "y"}

LowerChar(c) == IF c = "B" THEN "b" ELSE c
ToLower(s) == [i \in 1..Len(s) |-> LowerChar(s[i])]

RECURSIVE TrimStart(_)
TrimStart(s) == IF s # <<>> /\ Head(s) = " " THEN TrimStart(Tail(s)) ELSE s
RECURSIVE TrimEnd(_)
TrimEnd(s) ==
    IF s # <<>> /\ s[Len(s)] = " " THEN TrimEnd(SubSeq(s, 1, Len(s) - 1)) ELSE s
Trim(s) == TrimEnd(TrimStart(s))

Contains(hay, needle) ==
    \E i \in 0..(Len(hay) - Len(needle)) :
        SubSeq(hay, i + 1, i + Len(needle)) = needle

\* ------------------------------------------------------------------- paths
\* A path is [stem, ext]: the file stem names the session, ext is the list of
\* dot-separated components after it ("jsonl", or "deleted", "1", ...).
SessionPath(s) == [stem |-> s, ext |-> <<"jsonl">>]
HeaderRowPath == [stem |-> 0, ext |-> <<>>]
SetExtension(p, e) ==
    [p EXCEPT !.ext = IF Len(p.ext) = 0 THEN e
                      ELSE SubSeq(p.ext, 1, Len(p.ext) - 1) \o e]
IsRolloutName(p) == p.stem > 0 /\ Len(p.ext) > 0 /\ p.ext[Len(p.ext)] = "jsonl"

StemChar(s) == IF s = 1 THEN "1" ELSE IF s = 2 THEN "2" ELSE IF s = 3 THEN "3" ELSE "4"
ExtChars(x) ==
    IF x = "jsonl" THEN <<"j", "s", "o", "n", "l">>
    ELSE IF x = "deleted" THEN <<"d", "e", "l", "e", "t", "e", "d">>
    ELSE <<x>>
RECURSIVE JoinExt(_)
JoinExt(e) == IF e = <<>> THEN <<>> ELSE <<".">> \o ExtChars(Head(e)) \o JoinExt(Tail(e))
PathStr(p) == <<"r", "o", "l", "l", "o", "u", "t", "-", StemChar(p.stem)>> \o JoinExt(p.ext)

current_cwd == "cur"

\* ---------------------------------------------------------- rollout files
\* A file is a sequence of lines.  The first line of a session file is a
\* header; later lines are state records or opaque records.
\* A timestamp as written in the header: wall-clock reading and UTC offset
\* (both in hours); text that is not a timestamp has valid = FALSE.
Rfc3339(wall, off) == [valid |-> TRUE, wall |-> wall, off |-> off]
NotATimestamp == [valid |-> FALSE, wall |-> 0, off |-> 0]
\* DateTime::parse_from_rfc3339(..).with_timezone(&Utc): the instant, or Err
parse_from_rfc3339(ts) == IF ts.valid THEN Some(ts.wall - ts.off) ELSE None

HeaderLine(s, w, c, instr) ==
    [kind |-> "header", id |-> s, timestamp |-> Rfc3339(w, 0), cwd |-> c,
     instructions |-> instr, branch |-> <<>>, host |-> <<>>]
StateLine(n) == [kind |-> "state", name |-> n]

Exists(f, p) == p \in DOMAIN f
FsRename(f, src, dst) ==
    [q \in (DOMAIN f \ {src}) \cup {dst} |-> IF q = dst THEN f[src] ELSE f[q]]

\* std::fs::rename: the outcome `ok` is the environment's; it cannot succeed
\* when the source is missing
rename(f, src, dst, ok) == IF ok /\ Exists(f, src) THEN FsRename(f, src, dst) ELSE f
rename_is_ok(f, src, ok) == ok /\ Exists(f, src)

\* variant: the latest state record is rewritten in place
append_state_line_Rewrite(f, p, name, ok) ==
    IF ok /\ Exists(f, p)
    THEN [f EXCEPT ![p] = IF Len(f[p]) >= 2 /\ f[p][Len(f[p])].kind = "state"
                          THEN [f[p] EXCEPT ![Len(f[p])] = StateLine(name)]
                          ELSE Append(f[p], StateLine(name))]
    ELSE f

\* appends one state record as one line; fails without touching the file
append_state_line(f, p, name, ok) ==
    IF ok /\ Exists(f, p) THEN [f EXCEPT ![p] = Append(f[p], StateLine(name))] ELSE f

\* variant: each state record replaces the folded state as a whole
RECURSIVE FoldName_WholeRecord(_, _)
FoldName_WholeRecord(lines, acc) ==
    IF lines = <<>> THEN acc
    ELSE FoldName_WholeRecord(Tail(lines),
                              IF Head(lines).kind = "state"
                              THEN Head(lines).name ELSE acc)

RECURSIVE FoldName(_, _)
FoldName(lines, acc) ==
    IF lines = <<>> THEN acc
    ELSE FoldName(Tail(lines),
                  IF Head(lines).kind = "state" /\ IsSome(Head(lines).name)
                  THEN Head(lines).name ELSE acc)

\* (ok, header, state name): fails when the first line is absent or not a header
read_session_header_and_state(f, p) ==
    IF ~Exists(f, p) \/ f[p] = <<>> \/ f[p][1].kind # "header"
    THEN [ok |-> FALSE, meta |-> <<>>, name |-> None]
    ELSE [ok |-> TRUE, meta |-> Some(f[p][1]), name |-> FoldName(Tail(f[p]), None)]

NoTitle == <<"(", "n", "o", " ", "t", "i", "t", "l", "e", ")">>
TitleMax == 80
FirstLine(instr) == IF instr = <<>> THEN <<>> ELSE instr[1]
\* a character that takes two bytes in UTF-8; every other one takes one
WideChar == "e_acute"
Utf8Len(c) == IF c = WideChar THEN 2 ELSE 1
\* String::len(): bytes
RECURSIVE ByteLen(_)
ByteLen(t) == IF t = <<>> THEN 0 ELSE Utf8Len(Head(t)) + ByteLen(Tail(t))
\* the characters that lie wholly within the first n bytes
RECURSIVE BytePrefix(_, _)
BytePrefix(t, n) ==
    IF t = <<>> \/ Utf8Len(Head(t)) > n THEN <<>>
    ELSE <<Head(t)>> \o BytePrefix(Tail(t), n - Utf8Len(Head(t)))
\* if t.len() > n { t.truncate(n) }: String::truncate panics when byte n is
\* not a character boundary
TruncatePanics(t, n) == ByteLen(t) > n /\ ByteLen(BytePrefix(t, n)) # n
Truncate(t, n) == IF ByteLen(t) > n THEN BytePrefix(t, n) ELSE t

\* the title before its length is tested
HeaderTitle(meta, name) ==
    LET t0 == IF IsSome(name) THEN Unwrap(name) ELSE <<>>
        t1 == IF t0 = <<>> THEN Trim(FirstLine(meta.instructions)) ELSE t0
    IN IF t1 = <<>> THEN NoTitle ELSE t1

\* read_header panics in title.truncate(80)
read_header_panics(f, p) ==
    LET r == read_session_header_and_state(f, p) IN
    /\ r.ok
    /\ Unwrap(r.meta).timestamp.valid
    /\ TruncatePanics(HeaderTitle(Unwrap(r.meta), r.name), TitleMax)

\* Option<SessionEntry>
read_header(f, p) ==
    LET r == read_session_header_and_state(f, p) IN
    IF ~r.ok THEN None
    ELSE LET meta == Unwrap(r.meta)
             t2 == Truncate(HeaderTitle(meta, r.name), TitleMax)
             when == parse_from_rfc3339(meta.timestamp)
         IN IF ~IsSome(when) THEN None
            ELSE Some([id |-> meta.id, when |-> Unwrap(when), title |-> t2,
                       path |-> p, cwd |-> Some(meta.cwd),
                       branch |-> meta.branch, host |-> meta.host])

\* stable insertion, newest first
RECURSIVE InsertByWhen(_, _)
InsertByWhen(sorted, e) ==
    IF sorted = <<>> THEN <<e>>
    ELSE IF Head(sorted).when >= e.when
         THEN <<Head(sorted)>> \o InsertByWhen(Tail(sorted), e)
         ELSE <<e>> \o sorted
RECURSIVE SortNewestFirst(_)
SortNewestFirst(out) ==
    IF out = <<>> THEN <<>>
    ELSE InsertByWhen(SortNewestFirst(SubSeq(out, 1, Len(out) - 1)), out[Len(out)])

RECURSIVE WalkFrom(_, _, _)
WalkFrom(f, s, last) ==
    IF s > last THEN <<>>
    ELSE LET p == SessionPath(s)
             h == IF Exists(f, p) /\ IsRolloutName(p) THEN read_header(f, p) ELSE None
         IN h \o WalkFrom(f, s + 1, last)

\* the walk meets a file on which read_header panics
collect_recent_sessions_panics(f) ==
    \E s \in 1..MaxSessions :
        /\ Exists(f, SessionPath(s))
        /\ IsRolloutName(SessionPath(s))
        /\ read_header_panics(f, SessionPath(s))

collect_recent_sessions(f, limit) ==
    LET out == SortNewestFirst(WalkFrom(f, 1, MaxSessions))
    IN SubSeq(out, 1, Min(limit, Len(out)))

\* ------------------------------------------------------------ ScrollState
\* (selected_idx, scroll_top) helpers of bottom_pane::ScrollState
clamp_selection(sel, len) ==
    IF len = 0 THEN None
    ELSE Some(Min(IF IsSome(sel) THEN Unwrap(sel) ELSE 0, len - 1))

clamp_scroll_top(top, len) == IF len = 0 THEN 0 ELSE top

move_up_wrap(sel, len) ==
    IF len = 0 THEN None
    ELSE IF ~IsSome(sel) THEN Some(0)
    ELSE IF Unwrap(sel) > 0 THEN Some(Unwrap(sel) - 1)
    ELSE Some(len - 1)

move_down_wrap(sel, len) ==
    IF len = 0 THEN None
    ELSE IF IsSome(sel) /\ Unwrap(sel) + 1 < len THEN Some(Unwrap(sel) + 1)
    ELSE Some(0)

ensure_visible(sel, top, len, visible) ==
    IF len = 0 \/ visible = 0 THEN 0
    ELSE IF ~IsSome(sel) THEN 0
    ELSE IF Unwrap(sel) < top THEN Unwrap(sel)
    ELSE IF Unwrap(sel) > top + visible - 1 THEN Unwrap(sel) + 1 - visible
    ELSE top

\* ------------------------------------------------------------------- state
VARIABLES
    fs,                   \* the files under the sessions root: path -> lines
    entries,              \* widget.entries
    paths,                \* widget.paths, one per displayed row
    is_header,            \* widget.is_header, one per displayed row
    selected_idx,         \* widget.state.selected_idx
    scroll_top,           \* widget.state.scroll_top
    visible_rows,         \* widget.visible_rows
    filtering,
    filter_text,
    renaming,
    rename_text,
    confirm_resume_path,
    confirm_delete_path,
    last_deleted,         \* Option<(deleted_path, backup_path)>
    last_action_hint,
    selected,             \* the loop's result, Option<PathBuf>
    done,
    pc,                   \* "running" while inside the event loop, else "returned"
    ev                    \* the event the loop handled last (a key name or a typed character)

rowVars == <<paths, is_header>>
scrollVars == <<selected_idx, scroll_top, visible_rows>>
modeVars == <<filtering, filter_text, renaming, rename_text,
              confirm_resume_path, confirm_delete_path>>
diskVars == <<fs, entries, last_deleted>>
exitVars == <<selected, done>>
vars == <<fs, entries, paths, is_header, selected_idx, scroll_top, visible_rows,
          filtering, filter_text, renaming, rename_text, confirm_resume_path,
          confirm_delete_path, last_deleted, last_action_hint, selected, done,
          pc, ev>>

\* state of the process interrupt controller (core/src/local_exec.rs)
VARIABLES
    pgid,                 \* LocalExecRuntime.pgid: Option<i32>
    running,              \* LocalExecRuntime.running (the build without process groups)
    lock,                 \* holder of the mutex: 0 when free, else thread + 1
    xpc,                  \* position of each thread inside its call
    xloc,                 \* each thread's local: record_child's value, interrupt's taken pgid
    signals,              \* the kill(target, SIGINT) calls made so far
    recorded,             \* the values stored by record_child so far, oldest first
    cleared,              \* how many values had been recorded when clear last completed
    exited,               \* how many values had been recorded when a tracked child last exited
    xop                   \* the call that took a step last

execVars == <<pgid, running, lock, xpc, xloc, signals, recorded, cleared, exited, xop>>

\* state of the sessions command line (cli/src/sessions.rs) and of discovery
VARIABLES
    found,                \* result of the picker's collect_recent_sessions
    listed,               \* rows printed by `sessions list`
    cli_result,           \* outcome of the last command
    cli_arg,              \* id_or_path argument of the last `sessions name`
    appended              \* number of state lines appended by `sessions name`

cliVars == <<found, listed, cli_result, cli_arg, appended>>

pickerVars == <<entries, paths, is_header, selected_idx, scroll_top, visible_rows,
                filtering, filter_text, renaming, rename_text, confirm_resume_path,
                confirm_delete_path, last_deleted, last_action_hint, selected, done,
                pc, ev>>
allVars == <<vars, execVars, cliVars>>

\* bounds of the controller model
MaxInterrupters == 2
MaxRecords == 2

SpawnThread == 0
Interrupters == 1..MaxInterrupters
Threads == {SpawnThread} \cup Interrupters

\* LocalExecRuntime::new
ExecInit ==
    /\ pgid = None
    /\ running = FALSE
    /\ lock = 0
    /\ xpc = [t \in Threads |-> "idle"]
    /\ xloc = [t \in Threads |-> None]
    /\ signals = <<>>
    /\ recorded = <<>>
    /\ cleared = 0
    /\ exited = 0
    /\ xop = "new"

\* no command has run
NoOutput == [limit |-> 0, out |-> <<>>, torn |-> {}]
CliInit ==
    /\ found = NoOutput
    /\ listed = NoOutput
    /\ cli_result = "none"
    /\ cli_arg = None
    /\ appended = 0

\* ------------------------------------------------------------------- rows
DayOf(w) == w \div SlotsPerDay

IsHeaderAt(hdr, i) == i < Len(hdr) /\ hdr[i + 1]

Haystack(e) ==
    ToLower(e.title) \o <<"\n">> \o ToLower(e.branch) \o <<"\n">>
        \o ToLower(e.host) \o <<"\n">> \o ToLower(PathStr(e.path))

FilterKeeps(e, flt, text) ==
    LET ft_lower == ToLower(Trim(text))
    IN (flt /\ ft_lower # <<>>) => Contains(Haystack(e), ft_lower)

RECURSIVE FilterEntries(_, _, _)
FilterEntries(es, flt, text) ==
    IF es = <<>> THEN <<>>
    ELSE (IF FilterKeeps(Head(es), flt, text) THEN <<Head(es)>> ELSE <<>>)
             \o FilterEntries(Tail(es), flt, text)

\* variant: an empty result still gets a header row
RECURSIVE GroupByDate_LoneHeader(_, _)
GroupByDate_LoneHeader(filtered, last_date) ==
    IF filtered = <<>>
    THEN (IF last_date = None THEN <<[path |-> HeaderRowPath, hdr |-> TRUE]>> ELSE <<>>)
    ELSE LET e == Head(filtered)
             day == DayOf(e.when)
         IN (IF last_date # Some(day) THEN <<[path |-> HeaderRowPath, hdr |-> TRUE]>>
             ELSE <<>>)
            \o <<[path |-> e.path, hdr |-> FALSE]>>
            \o GroupByDate_LoneHeader(Tail(filtered), Some(day))

\* rows as (path, is_header) pairs, one date header before each new day
RECURSIVE GroupByDate(_, _)
GroupByDate(filtered, last_date) ==
    IF filtered = <<>> THEN <<>>
    ELSE LET e == Head(filtered)
             day == DayOf(e.when)
         IN (IF last_date # Some(day) THEN <<[path |-> HeaderRowPath, hdr |-> TRUE]>>
             ELSE <<>>)
            \o <<[path |-> e.path, hdr |-> FALSE]>>
            \o GroupByDate(Tail(filtered), Some(day))

rebuild_from_filter(es, flt, text, sel, top, visible) ==
    LET rows == GroupByDate(FilterEntries(es, flt, text), None)
        len == Len(rows)
        sel2 == clamp_selection(sel, len)
        top2 == clamp_scroll_top(top, len)
    IN [paths |-> [i \in 1..len |-> rows[i].path],
        is_header |-> [i \in 1..len |-> rows[i].hdr],
        selected_idx |-> sel2,
        scroll_top |-> ensure_visible(sel2, top2, len, Min(visible, Max(len, 1)))]

selected_path ==
    IF ~IsSome(selected_idx) THEN None
    ELSE IF IsHeaderAt(is_header, Unwrap(selected_idx)) THEN None
    ELSE IF Unwrap(selected_idx) < Len(paths) THEN Some(paths[Unwrap(selected_idx) + 1])
    ELSE None

\* index into entries of the selected row's entry, 0 when there is none
selected_entry_mut ==
    IF ~IsSome(selected_idx) \/ Unwrap(selected_idx) >= Len(paths) THEN 0
    ELSE LET p == paths[Unwrap(selected_idx) + 1]
             hits == {k \in 1..Len(entries) : entries[k].path = p}
         IN IF hits = {} THEN 0 ELSE CHOOSE k \in hits : \A j \in hits : k <= j

FirstCurrent(es) ==
    LET hits == {k \in 1..Len(es) : es[k].cwd = Some(current_cwd)}
    IN IF hits = {} THEN 0 ELSE (CHOOSE k \in hits : \A j \in hits : k <= j) - 1

\* ------------------------------------------------------------------- Init
Limit == MaxSessions
Instr(s) == IF s = 1 THEN <<<<"a", "B">>>>
            ELSE IF s = 2 THEN <<<<" ", "a">>, <<"o">>>>
            ELSE <<>>

\* n session files; session m (if any) was started in the current directory;
\* with tie, sessions 1 and 2 carry the same timestamp
InitWhen(s, tie) == IF tie /\ s = 1 THEN 2 ELSE s
InitFs(n, m, tie) ==
    [p \in {SessionPath(s) : s \in 1..n} |->
        <<HeaderLine(p.stem, InitWhen(p.stem, tie),
                     IF p.stem = m THEN current_cwd ELSE "other", Instr(p.stem))>>]

Init ==
    \E n \in 0..MaxSessions, h \in 1..MaxHeight :
      \E m \in 0..n, tie \in BOOLEAN :
        /\ fs = InitFs(n, m, tie)
        /\ LET es == collect_recent_sessions(InitFs(n, m, tie), Limit)
               len == Len(es)
               sel == clamp_selection(Some(FirstCurrent(es)), len)
           IN /\ entries = es
              /\ paths = [i \in 1..len |-> es[i].path]
              /\ is_header = [i \in 1..len |-> FALSE]
              /\ selected_idx = sel
              /\ visible_rows = h
              /\ scroll_top = ensure_visible(sel, ensure_visible(sel, 0, len, len),
                                             len, Min(h, Max(len, 1)))
              /\ pc = IF len = 0 THEN "returned" ELSE "running"
        /\ filtering = FALSE
        /\ filter_text = <<>>
        /\ renaming = FALSE
        /\ rename_text = <<>>
        /\ confirm_resume_path = None
        /\ confirm_delete_path = None
        /\ last_deleted = None
        /\ last_action_hint = None
        /\ selected = None
        /\ done = FALSE
        /\ ev = "start"
        /\ ExecInit
        /\ CliInit

\* ------------------------------------------------------------ key handlers
Mode ==
    IF renaming THEN "Renaming"
    ELSE IF filtering THEN "Filtering"
    ELSE IF IsSome(confirm_delete_path) THEN "ConfirmDelete"
    ELSE IF IsSome(confirm_resume_path) THEN "ConfirmResume"
    ELSE "Browsing"

\* `break` in a handler that is not inside an inner loop leaves `while !done`
BreakLoop == pc' = "returned"
Continue == pc' = "running"
Finish(result) == selected' = result /\ done' = TRUE /\ pc' = "returned"

RECURSIVE UpSkip(_, _)
UpSkip(sel, hdr) ==
    LET s2 == move_up_wrap(sel, Len(hdr))
        i == IF IsSome(s2) THEN Unwrap(s2) ELSE 0
    IN IF ~IsHeaderAt(hdr, i) THEN s2 ELSE UpSkip(s2, hdr)

\* a Down step that takes one step and does not look at is_header
DownSkip_OneStep(sel, hdr) == move_down_wrap(sel, Len(hdr))

RECURSIVE DownSkip(_, _)
DownSkip(sel, hdr) ==
    LET s2 == move_down_wrap(sel, Len(hdr))
        i == IF IsSome(s2) THEN Unwrap(s2) ELSE 0
    IN IF ~IsHeaderAt(hdr, i) THEN s2 ELSE DownSkip(s2, hdr)

RECURSIVE UpTimes(_, _, _)
UpTimes(sel, len, k) == IF k = 0 THEN sel ELSE UpTimes(move_up_wrap(sel, len), len, k - 1)
RECURSIVE DownTimes(_, _, _)
DownTimes(sel, len, k) ==
    IF k = 0 THEN sel ELSE DownTimes(move_down_wrap(sel, len), len, k - 1)

RECURSIVE HomeSkip(_, _)
HomeSkip(i, hdr) ==
    IF IsHeaderAt(hdr, i) /\ i + 1 < Len(hdr) THEN HomeSkip(i + 1, hdr) ELSE i
RECURSIVE EndSkip(_, _)
EndSkip(i, hdr) == IF i > 0 /\ IsHeaderAt(hdr, i) THEN EndSkip(i - 1, hdr) ELSE i

HomeSel(hdr) == IF Len(hdr) = 0 THEN None ELSE Some(HomeSkip(0, hdr))
EndSel(hdr) == IF Len(hdr) = 0 THEN None ELSE Some(EndSkip(Len(hdr) - 1, hdr))

\* common shape of the six movement arms
Movement(key, newsel) ==
    /\ pc = "running"
    /\ UNCHANGED <<execVars, cliVars>>
    /\ ev' = key
    /\ IF renaming \/ filtering
       THEN /\ BreakLoop
            /\ UNCHANGED scrollVars
       ELSE /\ Continue
            /\ selected_idx' = newsel
            /\ scroll_top' = ensure_visible(newsel, scroll_top, Len(paths), visible_rows)
            /\ UNCHANGED visible_rows
    /\ UNCHANGED <<rowVars, modeVars, diskVars, exitVars, last_action_hint>>

KeyUp == Movement("Up", UpSkip(selected_idx, is_header))
KeyDown == Movement("Down", DownSkip(selected_idx, is_header))
KeyPageUp == Movement("PageUp", UpTimes(selected_idx, Len(paths), Max(visible_rows, 1)))
KeyPageDown ==
    Movement("PageDown", DownTimes(selected_idx, Len(paths), Max(visible_rows, 1)))
KeyHome == Movement("Home", HomeSel(is_header))
KeyEnd == Movement("End", EndSel(is_header))

\* assigns the rows and the scroll state from a rebuild result
ApplyRebuild(r) ==
    /\ paths' = r.paths
    /\ is_header' = r.is_header
    /\ selected_idx' = r.selected_idx
    /\ scroll_top' = r.scroll_top
    /\ UNCHANGED visible_rows

KeyCtrlC ==
    /\ pc = "running"
    /\ UNCHANGED <<execVars, cliVars>>
    /\ ev' = "CtrlC"
    /\ IF renaming
       THEN /\ renaming' = FALSE
            /\ rename_text' = <<>>
            /\ Continue
            /\ UNCHANGED <<filtering, filter_text, confirm_resume_path,
                           confirm_delete_path, rowVars, scrollVars, exitVars>>
       ELSE IF filtering
       THEN /\ filtering' = FALSE
            /\ filter_text' = <<>>
            /\ ApplyRebuild(rebuild_from_filter(entries, FALSE, <<>>, selected_idx,
                                                scroll_top, visible_rows))
            /\ Continue
            /\ UNCHANGED <<renaming, rename_text, confirm_resume_path,
                           confirm_delete_path, exitVars>>
       ELSE IF IsSome(confirm_resume_path)
       THEN /\ confirm_resume_path' = None
            /\ Continue
            /\ UNCHANGED <<filtering, filter_text, renaming, rename_text,
                           confirm_delete_path, rowVars, scrollVars, exitVars>>
       ELSE /\ Finish(None)
            /\ UNCHANGED <<modeVars, rowVars, scrollVars>>
    /\ UNCHANGED <<diskVars, last_action_hint>>

\* variant: Esc leaves Filtering without rebuilding the rows
KeyEsc_NoRebuild ==
    /\ pc = "running"
    /\ UNCHANGED <<execVars, cliVars>>
    /\ ev' = "Esc"
    /\ IF renaming
       THEN /\ renaming' = FALSE
            /\ rename_text' = <<>>
            /\ Continue
            /\ UNCHANGED <<filtering, filter_text, confirm_resume_path,
                           confirm_delete_path, rowVars, scrollVars, exitVars>>
       ELSE IF filtering
       THEN /\ filtering' = FALSE
            /\ filter_text' = <<>>
            /\ Continue
            /\ UNCHANGED <<renaming, rename_text, confirm_resume_path,
                           confirm_delete_path, rowVars, scrollVars, exitVars>>
       ELSE IF IsSome(confirm_delete_path)
       THEN /\ confirm_delete_path' = None
            /\ Continue
            /\ UNCHANGED <<filtering, filter_text, renaming, rename_text,
                           confirm_resume_path, rowVars, scrollVars, exitVars>>
       ELSE IF IsSome(confirm_resume_path)
       THEN /\ confirm_resume_path' = None
            /\ Continue
            /\ UNCHANGED <<filtering, filter_text, renaming, rename_text,
                           confirm_delete_path, rowVars, scrollVars, exitVars>>
       ELSE /\ Finish(None)
            /\ UNCHANGED <<modeVars, rowVars, scrollVars>>
    /\ UNCHANGED <<diskVars, last_action_hint>>

\* variant: Esc leaves the pending delete target in place
KeyEsc_KeepsTarget ==
    /\ pc = "running"
    /\ UNCHANGED <<execVars, cliVars>>
    /\ ev' = "Esc"
    /\ IF renaming
       THEN /\ renaming' = FALSE
            /\ rename_text' = <<>>
            /\ Continue
            /\ UNCHANGED <<filtering, filter_text, confirm_resume_path,
                           confirm_delete_path, rowVars, scrollVars, exitVars>>
       ELSE IF filtering
       THEN /\ filtering' = FALSE
            /\ filter_text' = <<>>
            /\ ApplyRebuild(rebuild_from_filter(entries, FALSE, <<>>, selected_idx,
                                                scroll_top, visible_rows))
            /\ Continue
            /\ UNCHANGED <<renaming, rename_text, confirm_resume_path,
                           confirm_delete_path, exitVars>>
       ELSE IF IsSome(confirm_delete_path)
       THEN /\ Continue
            /\ UNCHANGED <<filtering, filter_text, renaming, rename_text,
                           confirm_delete_path, confirm_resume_path, rowVars,
                           scrollVars, exitVars>>
       ELSE IF IsSome(confirm_resume_path)
       THEN /\ confirm_resume_path' = None
            /\ Continue
            /\ UNCHANGED <<filtering, filter_text, renaming, rename_text,
                           confirm_delete_path, rowVars, scrollVars, exitVars>>
       ELSE /\ Finish(None)
            /\ UNCHANGED <<modeVars, rowVars, scrollVars>>
    /\ UNCHANGED <<diskVars, last_action_hint>>

KeyEsc ==
    /\ pc = "running"
    /\ UNCHANGED <<execVars, cliVars>>
    /\ ev' = "Esc"
    /\ IF renaming
       THEN /\ renaming' = FALSE
            /\ rename_text' = <<>>
            /\ Continue
            /\ UNCHANGED <<filtering, filter_text, confirm_resume_path,
                           confirm_delete_path, rowVars, scrollVars, exitVars>>
       ELSE IF filtering
       THEN /\ filtering' = FALSE
            /\ filter_text' = <<>>
            /\ ApplyRebuild(rebuild_from_filter(entries, FALSE, <<>>, selected_idx,
                                                scroll_top, visible_rows))
            /\ Continue
            /\ UNCHANGED <<renaming, rename_text, confirm_resume_path,
                           confirm_delete_path, exitVars>>
       ELSE IF IsSome(confirm_delete_path)
       THEN /\ confirm_delete_path' = None
            /\ Continue
            /\ UNCHANGED <<filtering, filter_text, renaming, rename_text,
                           confirm_resume_path, rowVars, scrollVars, exitVars>>
       ELSE IF IsSome(confirm_resume_path)
       THEN /\ confirm_resume_path' = None
            /\ Continue
            /\ UNCHANGED <<filtering, filter_text, renaming, rename_text,
                           confirm_delete_path, rowVars, scrollVars, exitVars>>
       ELSE /\ Finish(None)
            /\ UNCHANGED <<modeVars, rowVars, scrollVars>>
    /\ UNCHANGED <<diskVars, last_action_hint>>

KeySlash ==
    /\ pc = "running"
    /\ UNCHANGED <<execVars, cliVars>>
    /\ ev' = "Slash"
    /\ IF renaming
       THEN /\ BreakLoop
            /\ UNCHANGED <<filtering, filter_text>>
       ELSE /\ Continue
            /\ filtering' = TRUE
            /\ filter_text' = <<>>
    /\ UNCHANGED <<renaming, rename_text, confirm_resume_path, confirm_delete_path,
                   rowVars, scrollVars, diskVars, exitVars, last_action_hint>>

KeyBackspace ==
    /\ pc = "running"
    /\ UNCHANGED <<execVars, cliVars>>
    /\ ev' = "Backspace"
    /\ Continue
    /\ IF filtering
       THEN LET t == SubSeq(filter_text, 1, Len(filter_text) - 1)
            IN /\ filter_text' = t
               /\ ApplyRebuild(rebuild_from_filter(entries, TRUE, t, selected_idx,
                                                   scroll_top, visible_rows))
               /\ UNCHANGED rename_text
       ELSE IF renaming
       THEN /\ rename_text' = SubSeq(rename_text, 1, Len(rename_text) - 1)
            /\ UNCHANGED <<filter_text, rowVars, scrollVars>>
       ELSE UNCHANGED <<filter_text, rename_text, rowVars, scrollVars>>
    /\ UNCHANGED <<filtering, renaming, confirm_resume_path, confirm_delete_path,
                   diskVars, exitVars, last_action_hint>>

\* the backup name chosen by a confirmed delete
RECURSIVE BackupLoop(_, _, _)
BackupLoop(f, backup, n) ==
    IF Exists(f, backup)
    THEN BackupLoop(f, SetExtension(backup, <<"deleted", ToString(n + 1)>>), n + 1)
    ELSE backup
\* variant: the first backup name is used whether or not it is taken
BackupPath_NoProbe(f, sel_path) == SetExtension(sel_path, <<"deleted">>)
BackupPath(f, sel_path) == BackupLoop(f, SetExtension(sel_path, <<"deleted">>), 0)

RECURSIVE Retain(_, _)
Retain(es, p) ==
    IF es = <<>> THEN <<>>
    ELSE (IF Head(es).path # p THEN <<Head(es)>> ELSE <<>>) \o Retain(Tail(es), p)

\* the entries after undo re-reads the restored file
UndoEntries(es, f, del) ==
    LET h == read_header(f, del)
        hits == {k \in 1..Len(es) : es[k].path = del}
    IN IF ~IsSome(h) THEN es
       ELSE IF hits # {}
            THEN [es EXCEPT ![CHOOSE k \in hits : \A j \in hits : k <= j] = Unwrap(h)]
            ELSE Append(es, Unwrap(h))

KeyChar(c) ==
    /\ pc = "running"
    /\ UNCHANGED <<execVars, cliVars>>
    /\ ev' = c
    /\ Continue
    /\ IF filtering
       THEN \* typed text is bounded: at most MaxFilter characters of TextChars
            /\ Len(filter_text) < MaxFilter
            /\ c \in TextChars
            /\ filter_text' = Append(filter_text, c)
            /\ ApplyRebuild(rebuild_from_filter(entries, TRUE, Append(filter_text, c),
                                                selected_idx, scroll_top, visible_rows))
            /\ UNCHANGED <<filtering, renaming, rename_text, confirm_resume_path,
                           confirm_delete_path, diskVars, last_action_hint>>
       ELSE IF renaming
       THEN /\ Len(rename_text) < MaxName
            /\ c \in TextChars
            /\ rename_text' = Append(rename_text, c)
            /\ UNCHANGED <<filtering, filter_text, renaming, confirm_resume_path,
                           confirm_delete_path, rowVars, scrollVars, diskVars,
                           last_action_hint>>
       ELSE IF c = "r"
       THEN /\ renaming' = TRUE
            /\ rename_text' = <<>>
            /\ UNCHANGED <<filtering, filter_text, confirm_resume_path,
                           confirm_delete_path, rowVars, scrollVars, diskVars,
                           last_action_hint>>
       ELSE IF c = "d"
       THEN /\ confirm_delete_path' =
                   IF IsSome(selected_path) THEN selected_path ELSE confirm_delete_path
            /\ UNCHANGED <<filtering, filter_text, renaming, rename_text,
                           confirm_resume_path, rowVars, scrollVars, diskVars,
                           last_action_hint>>
       ELSE IF c = "u"
       THEN IF IsSome(last_deleted)
            THEN \E ok \in BOOLEAN :
                   LET del == Unwrap(last_deleted)[1]
                       backup == Unwrap(last_deleted)[2]
                       f2 == rename(fs, backup, del, ok)
                       es2 == UndoEntries(entries, f2, del)
                   IN /\ last_deleted' = None
                      /\ fs' = f2
                      /\ entries' = es2
                      /\ ApplyRebuild(rebuild_from_filter(es2, filtering, filter_text,
                                          selected_idx, scroll_top, visible_rows))
                      /\ last_action_hint' = Some("Undo: restored deleted session")
                      /\ UNCHANGED modeVars
            ELSE UNCHANGED <<modeVars, rowVars, scrollVars, diskVars, last_action_hint>>
       ELSE IF c = "y"
       THEN /\ last_action_hint' =
                   IF IsSome(selected_path) THEN Some("Path copied") ELSE last_action_hint
            /\ UNCHANGED <<modeVars, rowVars, scrollVars, diskVars>>
       ELSE IF c \in {"c", "i"}
       THEN /\ last_action_hint' =
                   IF selected_entry_mut # 0 THEN Some("ID copied") ELSE last_action_hint
            /\ UNCHANGED <<modeVars, rowVars, scrollVars, diskVars>>
       ELSE UNCHANGED <<modeVars, rowVars, scrollVars, diskVars, last_action_hint>>
    /\ UNCHANGED exitVars

\* a mismatch check that never asks for a confirmation
needs_confirm_Never(es, sel_path) == FALSE

\* does resuming the entry at sel_path need a confirmation
needs_confirm(es, sel_path) ==
    LET hits == {k \in 1..Len(es) : es[k].path = sel_path}
    IN IF hits = {} THEN FALSE
       ELSE LET entry == es[CHOOSE k \in hits : \A j \in hits : k <= j]
            IN IF IsSome(entry.cwd) THEN Unwrap(entry.cwd) # current_cwd ELSE FALSE

EnterRenaming ==
    \E ok \in BOOLEAN :
      LET new_name == rename_text
          k == selected_entry_mut
      IN /\ IF k # 0 /\ new_name # <<>>
            THEN LET es2 == [entries EXCEPT ![k].title = new_name]
                 IN /\ fs' = append_state_line(fs, entries[k].path, Some(new_name), ok)
                    /\ entries' = es2
                    /\ ApplyRebuild(rebuild_from_filter(es2, filtering, filter_text,
                                        selected_idx, scroll_top, visible_rows))
            ELSE UNCHANGED <<fs, entries, rowVars, scrollVars>>
         /\ renaming' = FALSE
         /\ rename_text' = <<>>
         /\ BreakLoop
         /\ UNCHANGED <<filtering, filter_text, confirm_resume_path,
                        confirm_delete_path, last_deleted, exitVars>>

EnterFiltering ==
    /\ filtering' = FALSE
    /\ BreakLoop
    /\ UNCHANGED <<filter_text, renaming, rename_text, confirm_resume_path,
                   confirm_delete_path, rowVars, scrollVars, diskVars, exitVars>>

EnterConfirmDelete ==
    \E ok \in BOOLEAN :
      LET sel_path == Unwrap(confirm_delete_path)
          backup == BackupPath(fs, sel_path)
      IN /\ confirm_delete_path' = None
         /\ IF rename_is_ok(fs, sel_path, ok)
            THEN LET es2 == Retain(entries, sel_path)
                 IN /\ fs' = rename(fs, sel_path, backup, ok)
                    /\ last_deleted' = Some(<<sel_path, backup>>)
                    /\ entries' = es2
                    /\ ApplyRebuild(rebuild_from_filter(es2, filtering, filter_text,
                                        selected_idx, scroll_top, visible_rows))
            ELSE UNCHANGED <<diskVars, rowVars, scrollVars>>
         /\ BreakLoop
         /\ UNCHANGED <<filtering, filter_text, renaming, rename_text,
                        confirm_resume_path, exitVars>>

EnterResume ==
    /\ IF IsSome(selected_path)
       THEN LET sel_path == Unwrap(selected_path)
            IN IF confirm_resume_path = Some(sel_path) \/ ~needs_confirm(entries, sel_path)
               THEN /\ Finish(Some(sel_path))
                    /\ UNCHANGED confirm_resume_path
               ELSE /\ confirm_resume_path' = Some(sel_path)
                    /\ Continue
                    /\ UNCHANGED exitVars
       ELSE /\ Continue
            /\ UNCHANGED <<confirm_resume_path, exitVars>>
    /\ UNCHANGED <<filtering, filter_text, renaming, rename_text, confirm_delete_path,
                   rowVars, scrollVars, diskVars>>

KeyEnter ==
    /\ pc = "running"
    /\ UNCHANGED <<execVars, cliVars>>
    /\ ev' = "Enter"
    /\ IF renaming THEN EnterRenaming
       ELSE IF filtering THEN EnterFiltering
       ELSE IF IsSome(confirm_delete_path) THEN EnterConfirmDelete
       ELSE EnterResume
    /\ UNCHANGED last_action_hint

\* TuiEvent::Draw with a list area of h rows
\* variant: a resize also drops the selection
Draw_DropsSelection(h) ==
    /\ pc = "running"
    /\ UNCHANGED <<execVars, cliVars>>
    /\ ev' = "Draw"
    /\ Continue
    /\ IF h # visible_rows
       THEN /\ visible_rows' = h
            /\ selected_idx' = None
            /\ scroll_top' = ensure_visible(selected_idx, scroll_top, Len(paths),
                                            Min(h, Max(Len(paths), 1)))
       ELSE UNCHANGED <<visible_rows, scroll_top, selected_idx>>
    /\ UNCHANGED <<rowVars, modeVars, diskVars, exitVars, last_action_hint>>

Draw(h) ==
    /\ pc = "running"
    /\ UNCHANGED <<execVars, cliVars>>
    /\ ev' = "Draw"
    /\ Continue
    /\ IF h # visible_rows
       THEN /\ visible_rows' = h
            /\ scroll_top' = ensure_visible(selected_idx, scroll_top, Len(paths),
                                            Min(h, Max(Len(paths), 1)))
       ELSE UNCHANGED <<visible_rows, scroll_top>>
    /\ UNCHANGED <<selected_idx, rowVars, modeVars, diskVars, exitVars, last_action_hint>>

\* any other event: a key release, an unbound key, a paste
OtherEvent ==
    /\ pc = "running"
    /\ UNCHANGED <<execVars, cliVars>>
    /\ ev' = "Other"
    /\ Continue
    /\ UNCHANGED <<rowVars, scrollVars, modeVars, diskVars, exitVars, last_action_hint>>

\* the event stream ends
StreamEnd ==
    /\ pc = "running"
    /\ UNCHANGED <<execVars, cliVars>>
    /\ ev' = "StreamEnd"
    /\ BreakLoop
    /\ UNCHANGED <<rowVars, scrollVars, modeVars, diskVars, exitVars, last_action_hint>>

Next ==
    \/ KeyUp
    \/ KeyDown
    \/ KeyPageUp
    \/ KeyPageDown
    \/ KeyHome
    \/ KeyEnd
    \/ KeyCtrlC
    \/ KeyEsc
    \/ KeySlash
    \/ KeyBackspace
    \/ \E c \in TextChars \cup CommandChars : KeyChar(c)
    \/ KeyEnter
    \/ \E h \in 1..MaxHeight : Draw(h)
    \/ OtherEvent
    \/ StreamEnd

Spec == Init /\ [][Next]_vars

TypeOK ==
    /\ pc \in {"running", "returned"}
    /\ Len(paths) = Len(is_header)
    /\ done \in BOOLEAN

\* ------------------------------------------------------------------ claims
MovementKeys == {"Up", "Down", "PageUp", "PageDown", "Home", "End"}
Selectable(hdr) == {i \in 0..(Len(hdr) - 1) : ~hdr[i + 1]}
OnSelectable(sel, hdr) == IsSome(sel) /\ Unwrap(sel) \in Selectable(hdr)
\* the recorded working directory in the header of the file at path p
RecordedCwd(p) == fs[p][1].cwd

\* C1: in every reachable state at most one of filtering, renaming, a pending
\* delete confirmation and a pending resume confirmation is active.
ActiveModes ==
    {m \in {"Filtering", "Renaming", "ConfirmDelete", "ConfirmResume"} :
        \/ m = "Filtering" /\ filtering
        \/ m = "Renaming" /\ renaming
        \/ m = "ConfirmDelete" /\ IsSome(confirm_delete_path)
        \/ m = "ConfirmResume" /\ IsSome(confirm_resume_path)}
C1_AtMostOneModeActive == Cardinality(ActiveModes) <= 1

\* C2: the selection index, when present, never addresses a date-header row.
C2_SelectionNeverOnHeader ==
    IsSome(selected_idx) => ~IsHeaderAt(is_header, Unwrap(selected_idx))

\* C3: a single Up or Down step taken from a selectable row, outside Filtering
\* and Renaming, rests on a selectable row: the nearest selectable row in the
\* direction of travel, wrapping at the list end; and repeating Down (or Up)
\* once per selectable row comes back to the starting row.
CyclicNext(i, hdr) ==
    CHOOSE j \in Selectable(hdr) :
        \A k \in Selectable(hdr) :
            ((j - i - 1) % Len(hdr)) <= ((k - i - 1) % Len(hdr))
CyclicPrev(i, hdr) ==
    CHOOSE j \in Selectable(hdr) :
        \A k \in Selectable(hdr) :
            ((i - j - 1) % Len(hdr)) <= ((i - k - 1) % Len(hdr))
RECURSIVE DownSkipTimes(_, _, _)
DownSkipTimes(sel, hdr, k) ==
    IF k = 0 THEN sel ELSE DownSkipTimes(DownSkip(sel, hdr), hdr, k - 1)
RECURSIVE UpSkipTimes(_, _, _)
UpSkipTimes(sel, hdr, k) ==
    IF k = 0 THEN sel ELSE UpSkipTimes(UpSkip(sel, hdr), hdr, k - 1)
C3_SingleStepSkipsHeaders ==
    [][(/\ ev' \in {"Up", "Down"}
        /\ ~filtering /\ ~renaming
        /\ OnSelectable(selected_idx, is_header))
       => /\ pc' = "running"
          /\ OnSelectable(selected_idx', is_header')
          /\ (ev' = "Down"
                => selected_idx' = Some(CyclicNext(Unwrap(selected_idx), is_header)))
          /\ (ev' = "Up"
                => selected_idx' = Some(CyclicPrev(Unwrap(selected_idx), is_header)))
          /\ DownSkipTimes(selected_idx, is_header, Cardinality(Selectable(is_header)))
                = selected_idx
          /\ UpSkipTimes(selected_idx, is_header, Cardinality(Selectable(is_header)))
                = selected_idx
          /\ \A k \in 1..Cardinality(Selectable(is_header)) :
                /\ OnSelectable(DownSkipTimes(selected_idx, is_header, k), is_header)
                /\ OnSelectable(UpSkipTimes(selected_idx, is_header, k), is_header)]_vars
\* an Up step that wrapped from the top of a list with two date headers to its
\* last row
C3_WrappedUpPastHeader ==
    /\ pc = "running"
    /\ ev = "Up"
    /\ Len(is_header) >= 4
    /\ is_header[1]
    /\ \E i \in 3..Len(is_header) : is_header[i]
    /\ selected_idx = Some(Len(is_header) - 1)

\* C4: in Filtering or Renaming a movement key changes neither the selection
\* nor the mode nor the buffers, and the picker keeps running.
C4_MovementDisabledInTextModes ==
    [][(ev' \in MovementKeys /\ (filtering \/ renaming))
       => /\ pc' = "running"
          /\ UNCHANGED <<selected_idx, modeVars>>]_vars

\* C5: Enter in Filtering leaves Filtering with the displayed rows kept, and
\* the loop keeps running.
C5_EnterKeepsFilterAndRuns ==
    [][(ev' = "Enter" /\ Mode = "Filtering")
       => /\ ~filtering'
          /\ UNCHANGED rowVars
          /\ pc' = "running"]_vars

\* C6: Enter in Renaming clears the buffer and continues in Browsing; with a
\* non-empty buffer (and an append that succeeds) exactly one state line with
\* the new name is appended to the selected entry's file and its title becomes
\* the new name, with an empty buffer nothing is appended and no title changes.
C6_EnterCommitsRenameAndRuns ==
    [][(/\ ev' = "Enter"
        /\ Mode = "Renaming"
        /\ selected_entry_mut # 0
        /\ (rename_text # <<>> => fs' # fs))
       => LET k == selected_entry_mut
              p == entries[k].path
          IN /\ ~renaming'
             /\ rename_text' = <<>>
             /\ pc' = "running"
             /\ IF rename_text # <<>>
                THEN /\ fs' = [fs EXCEPT ![p] = Append(fs[p], StateLine(Some(rename_text)))]
                     /\ entries'[k].title = rename_text
                ELSE UNCHANGED <<fs, entries>>]_vars

\* C7: a confirmed delete whose file move succeeds leaves the file under the
\* backup path, sets the undo slot to (target, backup), removes the entry, and
\* the picker keeps running in Browsing.
C7_ConfirmedDeleteKeepsRunning ==
    [][(/\ ev' = "Enter"
        /\ Mode = "ConfirmDelete"
        /\ ~Exists(fs', Unwrap(confirm_delete_path)))
       => LET target == Unwrap(confirm_delete_path)
          IN /\ IsSome(last_deleted')
             /\ Unwrap(last_deleted')[1] = target
             /\ Exists(fs', Unwrap(last_deleted')[2])
             /\ fs'[Unwrap(last_deleted')[2]] = fs[target]
             /\ \A k \in 1..Len(entries') : entries'[k].path # target
             /\ ~IsSome(confirm_delete_path')
             /\ pc' = "running"]_vars

\* C8: after a confirmed delete the picker is still running with the undo slot
\* set, so that `u` pressed next moves the backup back with unchanged content,
\* puts the entry back and clears the slot; `u` with an empty slot changes
\* nothing.
C8_DeleteUndoRoundTrip ==
    [][/\ (ev' = "Enter" /\ Mode = "ConfirmDelete" /\ IsSome(last_deleted'))
          => LET del == Unwrap(last_deleted')[1]
                 backup == Unwrap(last_deleted')[2]
                 f2 == rename(fs', backup, del, TRUE)
             IN /\ pc' = "running"
                /\ f2 = fs
                /\ \E k \in 1..Len(UndoEntries(entries', f2, del)) :
                      UndoEntries(entries', f2, del)[k].path = del
       /\ (ev' = "u" /\ Mode \in {"Browsing", "ConfirmDelete", "ConfirmResume"}
               /\ ~IsSome(last_deleted))
          => UNCHANGED <<rowVars, scrollVars, modeVars, diskVars, exitVars,
                         last_action_hint, pc>>]_vars

\* C9: the picker returns Some(path) only on Enter, and only when the session
\* at path was recorded in the current working directory or a resume
\* confirmation for exactly that path was pending; Enter on a mismatching entry
\* with no confirmation pending for it only records the confirmation.
C9_ResumeNeedsMatchOrConfirmation ==
    [][/\ (IsSome(selected') /\ ~IsSome(selected))
          => /\ ev' = "Enter"
             /\ selected' = selected_path
             /\ \/ RecordedCwd(Unwrap(selected')) = current_cwd
                \/ confirm_resume_path = selected'
       /\ (/\ ev' = "Enter"
           /\ Mode \in {"Browsing", "ConfirmResume"}
           /\ IsSome(selected_path)
           /\ RecordedCwd(Unwrap(selected_path)) # current_cwd
           /\ confirm_resume_path # selected_path)
          => /\ pc' = "running"
             /\ ~done'
             /\ ~IsSome(selected')
             /\ confirm_resume_path' = selected_path]_vars
\* the picker returned a session recorded elsewhere after its confirmation
C9_ResumedAfterConfirmation ==
    /\ pc = "returned"
    /\ ev = "Enter"
    /\ IsSome(selected)
    /\ confirm_resume_path = selected
    /\ RecordedCwd(Unwrap(selected)) # current_cwd

\* C10: a key ends the loop only as a terminal outcome: Some(path) on Enter in
\* Browsing or ConfirmResume, None on Esc or the cancel-combo in Browsing.
C10_ExitOnlyByTerminalOutcome ==
    [][(pc = "running" /\ pc' = "returned" /\ ev' # "StreamEnd")
       => \/ /\ IsSome(selected')
             /\ ev' = "Enter"
             /\ Mode \in {"Browsing", "ConfirmResume"}
          \/ /\ ~IsSome(selected')
             /\ ev' \in {"Esc", "CtrlC"}
             /\ Mode = "Browsing"]_vars

\* C11: Esc or the cancel-combo received in a single non-Browsing mode returns
\* the picker to Browsing without ending the loop; in ConfirmResume only the
\* pending confirmation is dropped.
C11_CancelReturnsToBrowsing ==
    [][(/\ ev' \in {"Esc", "CtrlC"}
        /\ Mode # "Browsing"
        /\ Cardinality(ActiveModes) = 1)
       => /\ pc' = "running"
          /\ ~done'
          /\ Mode' = "Browsing"
          /\ (Mode = "ConfirmResume"
                => UNCHANGED <<selected_idx, filter_text, entries, last_deleted,
                               filtering, renaming, confirm_delete_path>>)]_vars

\* C16: when the file mutation of a rename commit, a confirmed delete or an undo
\* fails (the files are as before), a hint is shown, the loop keeps running and
\* the entries and the undo slot are as before.
MutationAttempted ==
    \/ /\ ev' = "Enter" /\ Mode = "Renaming"
       /\ selected_entry_mut # 0 /\ rename_text # <<>>
    \/ ev' = "Enter" /\ Mode = "ConfirmDelete"
    \/ /\ ev' = "u" /\ Mode \in {"Browsing", "ConfirmDelete", "ConfirmResume"}
       /\ IsSome(last_deleted)
C16_FailedMutationLeavesListAndHints ==
    [][(MutationAttempted /\ fs' = fs)
       => /\ IsSome(last_action_hint')
          /\ pc' = "running"
          /\ UNCHANGED <<entries, last_deleted>>]_vars

\* ------------------------------------------- process interrupt controller
\* Spawn path (thread 0) and interrupt requests (threads 1..MaxInterrupters) of
\* core/src/local_exec.rs, each call split at its lock, slot access and unlock.

\* the picker is not running
PickerClosed ==
    /\ entries = <<>>
    /\ paths = <<>>
    /\ is_header = <<>>
    /\ selected_idx = None
    /\ scroll_top = 0
    /\ visible_rows = 1
    /\ filtering = FALSE
    /\ filter_text = <<>>
    /\ renaming = FALSE
    /\ rename_text = <<>>
    /\ confirm_resume_path = None
    /\ confirm_delete_path = None
    /\ last_deleted = None
    /\ last_action_hint = None
    /\ selected = None
    /\ done = FALSE
    /\ pc = "returned"
    /\ ev = "start"
PickerIdle == fs = <<>> /\ PickerClosed

\* a u32 is kept as its top bit and its low 31 bits
I32Max == 2147483647
U32(hi, lo) == [hi |-> hi, lo |-> lo]
\* process ids handed to record_child: an ordinary one, 2^31 and 2^31 + 1
Pids == {U32(0, 1), U32(1, 0), U32(1, 1)}
\* pid_u32 as i32
AsI32(u) == IF u.hi = 1 THEN (u.lo - I32Max) - 1 ELSE u.lo
I32Min == (0 - I32Max) - 1
\* -pgid where it does not overflow, wrapping at i32::MIN where the build
\* has overflow checks off
Neg32(v) == IF v = I32Min THEN v ELSE 0 - v
\* libc::getpgid(pid): the child leads its own group, or the lookup fails;
\* no process has a negative id
GetpgidResults(pid) == IF pid > 0 THEN {pid, -1} ELSE {-1}
RecordValue(pid, g) == IF g > 0 THEN g ELSE pid

Held(t) == lock = t + 1
\* a thread panicked while holding the guard: every later lock() is an Err
Poisoned == lock = -1
Acquire(t) == lock = 0 /\ lock' = t + 1
Release(t) == lock' = 0
Goto(t, label) == xpc' = [xpc EXCEPT ![t] = label]

\* Both builds take the same calls: pgid is the slot of the build with process
\* groups, running the flag of the build without them, written at the same
\* step of each call.  The flag build computes no value and negates none, so
\* it writes its flag where the other build finds its mutex poisoned.

\* variant: a call with no pid empties the slot
RecordChildCall_NoneClears(po) ==
    /\ xpc[SpawnThread] = "idle"
    /\ Len(recorded) < MaxRecords
    /\ IF IsSome(po)
       THEN \E g \in GetpgidResults(AsI32(Unwrap(po))) :
              /\ xloc' = [xloc EXCEPT ![SpawnThread] =
                              Some(RecordValue(AsI32(Unwrap(po)), g))]
              /\ Goto(SpawnThread, "rec_lock")
              /\ xop' = "record_child"
              /\ UNCHANGED running
       ELSE /\ xop' = "record_child_none"
            /\ IF lock = 0 \/ Poisoned
               THEN running' = TRUE /\ UNCHANGED xpc
               ELSE Goto(SpawnThread, "rec_flag") /\ UNCHANGED running
            /\ UNCHANGED xloc
    /\ pgid' = IF IsSome(po) THEN pgid ELSE None
    /\ UNCHANGED <<exited, lock, signals, recorded, cleared>>
    /\ UNCHANGED <<vars, cliVars>>

\* record_child(runtime, pid_opt) up to the lock; with no pid the group build
\* returns at once while the flag build still locks and sets its flag
RecordChildCall(po) ==
    /\ xpc[SpawnThread] = "idle"
    /\ Len(recorded) < MaxRecords
    /\ IF IsSome(po)
       THEN \E g \in GetpgidResults(AsI32(Unwrap(po))) :
              /\ xloc' = [xloc EXCEPT ![SpawnThread] =
                              Some(RecordValue(AsI32(Unwrap(po)), g))]
              /\ Goto(SpawnThread, "rec_lock")
              /\ xop' = "record_child"
              /\ UNCHANGED running
       ELSE /\ xop' = "record_child_none"
            /\ IF lock = 0 \/ Poisoned
               THEN running' = TRUE /\ UNCHANGED xpc
               ELSE Goto(SpawnThread, "rec_flag") /\ UNCHANGED running
            /\ UNCHANGED xloc
    /\ UNCHANGED <<pgid, exited, lock, signals, recorded, cleared>>
    /\ UNCHANGED <<vars, cliVars>>

\* the flag build's record_child(None) once the mutex is free: *guard = true
RecordChildFlag ==
    /\ xpc[SpawnThread] = "rec_flag"
    /\ lock = 0 \/ Poisoned
    /\ running' = TRUE
    /\ Goto(SpawnThread, "idle")
    /\ xop' = "record_child_flag"
    /\ UNCHANGED <<pgid, exited, lock, xloc, signals, recorded, cleared>>
    /\ UNCHANGED <<vars, cliVars>>

RecordChildLock ==
    /\ xpc[SpawnThread] = "rec_lock"
    /\ IF Poisoned
       THEN /\ Goto(SpawnThread, "idle")
            /\ xloc' = [xloc EXCEPT ![SpawnThread] = None]
            /\ xop' = "record_child_err"
            /\ running' = TRUE
            /\ UNCHANGED lock
       ELSE /\ Acquire(SpawnThread)
            /\ Goto(SpawnThread, "rec_store")
            /\ xop' = "record_child"
            /\ UNCHANGED <<xloc, running>>
    /\ UNCHANGED <<pgid, exited, signals, recorded, cleared>>
    /\ UNCHANGED <<vars, cliVars>>

\* variant: a tracked identity is not replaced
RecordChildStore_KeepFirst ==
    /\ xpc[SpawnThread] = "rec_store"
    /\ pgid' = IF IsSome(pgid) THEN pgid ELSE xloc[SpawnThread]
    /\ recorded' = Append(recorded, Unwrap(xloc[SpawnThread]))
    /\ running' = TRUE
    /\ Goto(SpawnThread, "rec_unlock")
    /\ xop' = "record_child"
    /\ UNCHANGED <<exited, lock, xloc, signals, cleared>>
    /\ UNCHANGED <<vars, cliVars>>

\* *guard = Some(value)
RecordChildStore ==
    /\ xpc[SpawnThread] = "rec_store"
    /\ pgid' = xloc[SpawnThread]
    /\ recorded' = Append(recorded, Unwrap(xloc[SpawnThread]))
    /\ running' = TRUE
    /\ Goto(SpawnThread, "rec_unlock")
    /\ xop' = "record_child"
    /\ UNCHANGED <<exited, lock, xloc, signals, cleared>>
    /\ UNCHANGED <<vars, cliVars>>

RecordChildUnlock ==
    /\ xpc[SpawnThread] = "rec_unlock"
    /\ Release(SpawnThread)
    /\ xloc' = [xloc EXCEPT ![SpawnThread] = None]
    /\ Goto(SpawnThread, "idle")
    /\ xop' = "record_child"
    /\ UNCHANGED <<pgid, running, exited, signals, recorded, cleared>>
    /\ UNCHANGED <<vars, cliVars>>

\* clear(runtime)
ClearLock ==
    /\ xpc[SpawnThread] = "idle"
    /\ IF Poisoned
       THEN /\ xop' = "clear_err"
            /\ running' = FALSE
            /\ UNCHANGED <<lock, xpc>>
       ELSE /\ Acquire(SpawnThread)
            /\ Goto(SpawnThread, "clr_store")
            /\ xop' = "clear"
            /\ UNCHANGED running
    /\ UNCHANGED <<pgid, exited, xloc, signals, recorded, cleared>>
    /\ UNCHANGED <<vars, cliVars>>

\* variant: clear leaves the slot as it was
ClearStore_Skip ==
    /\ xpc[SpawnThread] = "clr_store"
    /\ pgid' = pgid
    /\ running' = FALSE
    /\ Goto(SpawnThread, "clr_unlock")
    /\ xop' = "clear"
    /\ UNCHANGED <<exited, lock, xloc, signals, recorded, cleared>>
    /\ UNCHANGED <<vars, cliVars>>

ClearStore ==
    /\ xpc[SpawnThread] = "clr_store"
    /\ pgid' = None
    /\ running' = FALSE
    /\ Goto(SpawnThread, "clr_unlock")
    /\ xop' = "clear"
    /\ UNCHANGED <<exited, lock, xloc, signals, recorded, cleared>>
    /\ UNCHANGED <<vars, cliVars>>

ClearUnlock ==
    /\ xpc[SpawnThread] = "clr_unlock"
    /\ Release(SpawnThread)
    /\ cleared' = Len(recorded)
    /\ Goto(SpawnThread, "idle")
    /\ xop' = "clear_done"
    /\ UNCHANGED <<pgid, running, exited, xloc, signals, recorded>>
    /\ UNCHANGED <<vars, cliVars>>

\* variant: the slot is entered without waiting for the lock
InterruptLock_NoExclusion(t) ==
    /\ xpc[t] = "idle"
    /\ lock' = t + 1
    /\ Goto(t, "int_read")
    /\ xop' = "interrupt"
    /\ UNCHANGED <<pgid, running, exited, xloc, signals, recorded, cleared>>
    /\ UNCHANGED <<vars, cliVars>>

\* interrupt(runtime): runtime.pgid.lock()
InterruptLock(t) ==
    /\ xpc[t] = "idle"
    /\ IF Poisoned
       THEN /\ xop' = "interrupt_err"
            /\ running' = FALSE
            /\ UNCHANGED <<lock, xpc>>
       ELSE /\ Acquire(t)
            /\ Goto(t, "int_read")
            /\ xop' = "interrupt"
            /\ UNCHANGED running
    /\ UNCHANGED <<pgid, exited, xloc, signals, recorded, cleared>>
    /\ UNCHANGED <<vars, cliVars>>

\* guard.take(): read the slot ...
InterruptRead(t) ==
    /\ xpc[t] = "int_read"
    /\ xloc' = [xloc EXCEPT ![t] = pgid]
    /\ Goto(t, "int_clear")
    /\ xop' = "interrupt"
    /\ UNCHANGED <<pgid, running, exited, lock, signals, recorded, cleared>>
    /\ UNCHANGED <<vars, cliVars>>

\* variant: the value is read but stays in the slot
InterruptClear_Keep(t) ==
    /\ xpc[t] = "int_clear"
    /\ pgid' = pgid
    /\ running' = FALSE
    /\ Goto(t, IF IsSome(xloc[t]) THEN "int_kill" ELSE "int_unlock")
    /\ xop' = "interrupt"
    /\ UNCHANGED <<exited, lock, xloc, signals, recorded, cleared>>
    /\ UNCHANGED <<vars, cliVars>>

\* ... and leave None in it
InterruptClear(t) ==
    /\ xpc[t] = "int_clear"
    /\ pgid' = None
    /\ running' = FALSE
    /\ Goto(t, IF IsSome(xloc[t]) THEN "int_kill" ELSE "int_unlock")
    /\ xop' = "interrupt"
    /\ UNCHANGED <<exited, lock, xloc, signals, recorded, cleared>>
    /\ UNCHANGED <<vars, cliVars>>

\* variant: an identity whose signal could not be delivered goes back into
\* the slot
InterruptKill_RestoreOnFailure(t) ==
    /\ xpc[t] = "int_kill"
    /\ \/ \E ok \in BOOLEAN :
             /\ signals' = Append(signals, [target |-> Neg32(Unwrap(xloc[t])),
                                            gen |-> Len(recorded), by |-> t,
                                            ok |-> ok])
             /\ pgid' = IF ok THEN pgid ELSE xloc[t]
             /\ Goto(t, "int_unlock")
             /\ xop' = "interrupt_kill"
             /\ UNCHANGED <<lock, xloc>>
       \/ /\ Unwrap(xloc[t]) = I32Min
          /\ lock' = -1
          /\ xloc' = [xloc EXCEPT ![t] = None]
          /\ Goto(t, "panicked")
          /\ xop' = "interrupt_panic"
          /\ UNCHANGED <<signals, pgid>>
    /\ UNCHANGED <<running, exited, recorded, cleared>>
    /\ UNCHANGED <<vars, cliVars>>

\* libc::kill(-pgid, SIGINT): it succeeds or fails and `let _ =` drops the
\* result; -pgid overflows at i32::MIN and a build with overflow checks on
\* panics there, before the call: the thread unwinds and its guard poisons
\* the mutex
InterruptKill(t) ==
    /\ xpc[t] = "int_kill"
    /\ \/ \E ok \in BOOLEAN :
             /\ signals' = Append(signals, [target |-> Neg32(Unwrap(xloc[t])),
                                            gen |-> Len(recorded), by |-> t,
                                            ok |-> ok])
             /\ Goto(t, "int_unlock")
             /\ xop' = "interrupt_kill"
             /\ UNCHANGED <<lock, xloc>>
       \/ /\ Unwrap(xloc[t]) = I32Min
          /\ lock' = -1
          /\ xloc' = [xloc EXCEPT ![t] = None]
          /\ Goto(t, "panicked")
          /\ xop' = "interrupt_panic"
          /\ UNCHANGED signals
    /\ UNCHANGED <<pgid, running, exited, recorded, cleared>>
    /\ UNCHANGED <<vars, cliVars>>

InterruptUnlock(t) ==
    /\ xpc[t] = "int_unlock"
    /\ Release(t)
    /\ xloc' = [xloc EXCEPT ![t] = None]
    /\ Goto(t, "idle")
    /\ xop' = IF IsSome(xloc[t]) THEN "interrupt_done" ELSE "interrupt_noop"
    /\ UNCHANGED <<pgid, running, exited, signals, recorded, cleared>>
    /\ UNCHANGED <<vars, cliVars>>

\* the environment: the child recorded last exits
ChildExit ==
    /\ exited < Len(recorded)
    /\ exited' = Len(recorded)
    /\ xop' = "child_exit"
    /\ UNCHANGED <<pgid, running, lock, xpc, xloc, signals, recorded, cleared>>
    /\ UNCHANGED <<vars, cliVars>>

InitExec == PickerIdle /\ CliInit /\ ExecInit

NextExec ==
    \/ \E po \in {None} \cup {Some(p) : p \in Pids} : RecordChildCall(po)
    \/ RecordChildFlag
    \/ RecordChildLock
    \/ RecordChildStore
    \/ RecordChildUnlock
    \/ ClearLock
    \/ ClearStore
    \/ ClearUnlock
    \/ \E t \in Interrupters : InterruptLock(t)
    \/ \E t \in Interrupters : InterruptRead(t)
    \/ \E t \in Interrupters : InterruptClear(t)
    \/ \E t \in Interrupters : InterruptKill(t)
    \/ \E t \in Interrupters : InterruptUnlock(t)
    \/ ChildExit

SpecExec == InitExec /\ [][NextExec]_allVars

\* ------------------------------------------- interrupt controller: claims

\* signals sent for the n-th recorded identity
SignalsFor(n) == {i \in DOMAIN signals : signals[i].gen = n}
InterruptReturned == xop \in {"interrupt_done", "interrupt_noop"}
CriticalLabels == {"rec_store", "rec_unlock", "clr_store", "clr_unlock",
                   "int_read", "int_clear", "int_kill", "int_unlock"}
InCritical == {t \in Threads : xpc[t] \in CriticalLabels}

\* C12: interrupt is idempotent: once an interrupt has returned the slot is
\* empty, and the identity stored by the latest record_child has received at
\* most one signal however many interrupts followed it.
C12_InterruptIdempotent ==
    /\ InterruptReturned => pgid = None
    /\ Cardinality(SignalsFor(Len(recorded))) <= 1

\* a second interrupt after a signalling one, with no record_child and no
\* clear in between, has returned without sending anything
C12_SecondInterruptNoop ==
    /\ xop = "interrupt_noop"
    /\ Len(recorded) >= 1
    /\ cleared < Len(recorded)
    /\ Cardinality(SignalsFor(Len(recorded))) = 1

\* C13: the slot is accessed under mutual exclusion and take-and-clear is one
\* critical section: at most one thread is between lock and unlock, at most
\* one interrupt holds a taken identity, and every recorded identity is
\* signalled at most once under every interleaving.
C13_TakeAndClearCritical ==
    /\ Cardinality(InCritical) <= 1
    /\ Cardinality({t \in Interrupters : IsSome(xloc[t])}) <= 1
    /\ \A n \in 0..Len(recorded) : Cardinality(SignalsFor(n)) <= 1

\* two different interrupt threads have each signalled, each for a different
\* recorded identity
C13_TwoInterruptersSignalled ==
    /\ Len(signals) = 2
    /\ signals[1].by # signals[2].by
    /\ signals[1].gen # signals[2].gen

\* C14: once clear() has completed and no record_child has stored since, the
\* slot is empty, and every signal an interrupt sends is for an identity
\* recorded after the last completed clear.
C14_NoSignalAfterClear ==
    /\ [](cleared = Len(recorded) => pgid = None)
    /\ [][signals' # signals =>
            signals'[Len(signals')].gen > cleared]_allVars

\* an interrupt requested after clear() completed returned without a signal
C14_InterruptAfterClearSentNothing ==
    /\ Len(recorded) >= 1
    /\ cleared = Len(recorded)
    /\ xop = "interrupt_noop"
    /\ signals = <<>>

\* C15: the slot holds at most one identity, the one stored last: a second
\* record_child supersedes the first, and every signal is addressed to the
\* negated identity that was the latest recorded when it was sent.
C15_RecordSupersedes ==
    /\ IsSome(pgid) => /\ Len(recorded) >= 1
                       /\ Unwrap(pgid) = recorded[Len(recorded)]
    /\ \A i \in DOMAIN signals :
          /\ signals[i].gen \in 1..Len(recorded)
          /\ signals[i].target = Neg32(recorded[signals[i].gen])

\* a second child was recorded while the first was still tracked, and the
\* interrupt that followed signalled the second child's group only
C15_SecondChildSignalled ==
    /\ Len(recorded) = 2
    /\ recorded[1] # recorded[2]
    /\ cleared = 0
    /\ Len(signals) = 1
    /\ signals[1].gen = 2
    /\ signals[1].target = Neg32(recorded[2])

\* ------------------------------------------------- sessions CLI and discovery
\* cli/src/sessions.rs, and discovery of both front ends over the same files.

\* String::cmp of two timestamps as written: the wall-clock digits first, then
\* the offset suffix ('+' < '-' < 'Z'); text that is not a timestamp starts
\* with a letter and sorts after every digit
TimestampKey(ts) ==
    IF ~ts.valid THEN <<1, 0, 0, 0>>
    ELSE IF ts.off > 0 THEN <<0, ts.wall, 0, ts.off>>
    ELSE IF ts.off < 0 THEN <<0, ts.wall, 1, 0 - ts.off>>
    ELSE <<0, ts.wall, 2, 0>>
RECURSIVE SeqLess(_, _)
SeqLess(a, b) ==
    IF b = <<>> THEN FALSE
    ELSE IF a = <<>> THEN TRUE
    ELSE IF Head(a) # Head(b) THEN Head(a) < Head(b)
    ELSE SeqLess(Tail(a), Tail(b))
StringLess(a, b) == SeqLess(TimestampKey(a), TimestampKey(b))

\* FullEntry
RECURSIVE WalkCli(_, _, _)
WalkCli(f, s, last) ==
    IF s > last THEN <<>>
    ELSE LET p == SessionPath(s)
             r == read_session_header_and_state(f, p)
             e == IF Exists(f, p) /\ IsRolloutName(p) /\ r.ok
                  THEN <<[id |-> Unwrap(r.meta).id,
                          timestamp |-> Unwrap(r.meta).timestamp,
                          name |-> r.name, path |-> p,
                          cwd |-> Some(Unwrap(r.meta).cwd)]>>
                  ELSE <<>>
         IN e \o WalkCli(f, s + 1, last)
collect_sessions(f) == WalkCli(f, 1, MaxSessions)

\* the instruction line session_title measures, when it gets that far
TitleLine(f, e) ==
    IF IsSome(e.name) /\ Trim(Unwrap(e.name)) # <<>> THEN <<>>
    ELSE IF Exists(f, e.path) /\ f[e.path] # <<>> /\ f[e.path][1].kind = "header"
              /\ f[e.path][1].instructions # <<>>
         THEN Trim(FirstLine(f[e.path][1].instructions))
         ELSE <<>>
\* session_title panics in line.truncate(80)
session_title_panics(f, e) == TruncatePanics(TitleLine(f, e), TitleMax)

session_title(f, e) ==
    IF IsSome(e.name) /\ Trim(Unwrap(e.name)) # <<>> THEN Unwrap(e.name)
    ELSE IF Exists(f, e.path) /\ f[e.path] # <<>> /\ f[e.path][1].kind = "header"
              /\ f[e.path][1].instructions # <<>>
         THEN LET line == Trim(FirstLine(f[e.path][1].instructions))
              IN Truncate(IF line = <<>> THEN NoTitle ELSE line, TitleMax)
         ELSE NoTitle

\* entries.sort_by(|a, b| b.timestamp.cmp(&a.timestamp)): stable, greatest
\* timestamp string first
RECURSIVE InsertByTimestamp(_, _)
InsertByTimestamp(sorted, e) ==
    IF sorted = <<>> THEN <<e>>
    ELSE IF ~StringLess(Head(sorted).timestamp, e.timestamp)
         THEN <<Head(sorted)>> \o InsertByTimestamp(Tail(sorted), e)
         ELSE <<e>> \o sorted
RECURSIVE SortByTimestampString(_)
SortByTimestampString(out) ==
    IF out = <<>> THEN <<>>
    ELSE InsertByTimestamp(SortByTimestampString(SubSeq(out, 1, Len(out) - 1)),
                           out[Len(out)])

\* a row list_cmd would print makes session_title panic
list_cmd_panics(f, limit) ==
    LET sorted == SortByTimestampString(collect_sessions(f))
        shown == SubSeq(sorted, 1, Min(limit, Len(sorted)))
    IN \E i \in 1..Len(shown) : session_title_panics(f, shown[i])

\* the rows list_cmd prints
list_cmd(f, limit) ==
    LET sorted == SortByTimestampString(collect_sessions(f))
        shown == SubSeq(sorted, 1, Min(limit, Len(sorted)))
    IN [i \in 1..Len(shown) |->
          [id |-> shown[i].id, timestamp |-> shown[i].timestamp,
           path |-> shown[i].path, title |-> session_title(f, shown[i])]]

\* id.as_simple().to_string()
IdStr(id) ==
    IF id = 1 THEN <<"a", "b">>
    ELSE IF id = 2 THEN <<"a", "c">>
    ELSE IF id = 3 THEN <<"b", "d">>
    ELSE <<"b", "e">>
StartsWith(str, prefix) ==
    Len(prefix) <= Len(str) /\ SubSeq(str, 1, Len(prefix)) = prefix

\* the id_or_path argument: its text, and the file it names when read as a path
PrefixArg(text) == [text |-> text, as_path |-> None]
PathArg(p) == [text |-> PathStr(p), as_path |-> Some(p)]
NameArgs ==
    {PrefixArg(t) : t \in {<<>>, <<"a">>, <<"b">>, <<"a", "b">>, <<"c">>}}
        \cup {PathArg(SessionPath(s)) : s \in 1..MaxSessions}

\* variant: the first match is taken when several ids start with the prefix
resolve_session_path_First(f, arg) ==
    IF IsSome(arg.as_path) /\ Exists(f, Unwrap(arg.as_path))
    THEN [tag |-> "ok", path |-> arg.as_path]
    ELSE LET matches == SelectSeq(collect_sessions(f),
                                  LAMBDA e : StartsWith(IdStr(e.id), arg.text))
         IN IF Len(matches) = 0 THEN [tag |-> "no_match", path |-> None]
            ELSE [tag |-> "ok", path |-> Some(matches[1].path)]

resolve_session_path(f, arg) ==
    IF IsSome(arg.as_path) /\ Exists(f, Unwrap(arg.as_path))
    THEN [tag |-> "ok", path |-> arg.as_path]
    ELSE LET matches == SelectSeq(collect_sessions(f),
                                  LAMBDA e : StartsWith(IdStr(e.id), arg.text))
         IN IF Len(matches) = 0 THEN [tag |-> "no_match", path |-> None]
            ELSE IF Len(matches) = 1 THEN [tag |-> "ok", path |-> Some(matches[1].path)]
            ELSE [tag |-> "ambiguous", path |-> None]

\* files a run starts from
OpaqueLine == [kind |-> "opaque"]
Hdr(s, ts, instr) == [HeaderLine(s, 0, "other", instr) EXCEPT !.timestamp = ts]
FileChoices(s) ==
    {<<OpaqueLine>>,
     <<Hdr(s, NotATimestamp, <<<<"a">>>>)>>,
     <<Hdr(s, Rfc3339(1, 0), <<<<"a">>>>)>>,
     <<Hdr(s, Rfc3339(2, 0), <<<<" ">>, <<"a">>>>)>>,
     <<Hdr(s, Rfc3339(3, 2), <<>>)>>,
     <<Hdr(s, Rfc3339(2, 0), <<<<"a">>>>), StateLine(Some(<<"B">>))>>,
     <<Hdr(s, Rfc3339(2, 0), <<<<"a">>>>), StateLine(Some(<<" ">>))>>,
     <<Hdr(s, Rfc3339(1, 0), <<>>), StateLine(Some(<<"a">>)),
       StateLine(Some(<<"B">>)), OpaqueLine, StateLine(None)>>}
NewNames == {<<"B">>}
MaxAppends == 1
\* session files present when the commands run
MaxFiles == 2

InitSessions ==
    /\ \E present \in SUBSET (1..Min(MaxFiles, MaxSessions)) :
         \E f \in [{SessionPath(s) : s \in present} ->
                      UNION {FileChoices(s) : s \in 1..MaxSessions}] :
            /\ \A p \in DOMAIN f : f[p] \in FileChoices(p.stem)
            /\ fs = f
    /\ PickerClosed
    /\ ExecInit
    /\ CliInit

\* Each command below is one run of a front end: found, listed and cli_result
\* hold what the latest run produced.

\* A reader may meet a file while its session is writing a record: it then
\* sees the complete lines followed by an unterminated piece of the next one.
TruncatedLine == [kind |-> "truncated"]
TornView(f, torn) ==
    [p \in DOMAIN f |-> IF p.stem \in torn THEN Append(f[p], TruncatedLine) ELSE f[p]]
\* session 1 is the one that may be running
TornChoices == {{}, {1}}

\* the picker's discovery
Discover(limit, torn) ==
    /\ IF collect_recent_sessions_panics(TornView(fs, torn))
       THEN /\ found' = NoOutput
            /\ cli_result' = "panic"
       ELSE /\ found' = [limit |-> limit, torn |-> torn,
                         out |-> collect_recent_sessions(TornView(fs, torn), limit)]
            /\ cli_result' = "discover"
    /\ cli_arg' = None
    /\ listed' = NoOutput
    /\ UNCHANGED <<fs, appended>>
    /\ UNCHANGED <<pickerVars, execVars>>

\* codex sessions list -n limit
List(limit, torn) ==
    /\ IF list_cmd_panics(TornView(fs, torn), limit)
       THEN /\ listed' = NoOutput
            /\ cli_result' = "panic"
       ELSE /\ listed' = [limit |-> limit, torn |-> torn,
                          out |-> list_cmd(TornView(fs, torn), limit)]
            /\ cli_result' = "list"
    /\ cli_arg' = None
    /\ found' = NoOutput
    /\ UNCHANGED <<fs, appended>>
    /\ UNCHANGED <<pickerVars, execVars>>

\* codex sessions name id_or_path name
name_cmd(arg, name, ok) ==
    /\ appended < MaxAppends
    /\ cli_arg' = Some(arg)
    /\ LET r == resolve_session_path(fs, arg) IN
         IF r.tag # "ok"
         THEN /\ cli_result' = r.tag
              /\ UNCHANGED <<fs, appended>>
         ELSE IF ok /\ Exists(fs, Unwrap(r.path))
         THEN /\ fs' = append_state_line(fs, Unwrap(r.path), Some(name), ok)
              /\ appended' = appended + 1
              /\ cli_result' = "named"
         ELSE /\ cli_result' = "io_error"
              /\ UNCHANGED <<fs, appended>>
    /\ found' = NoOutput
    /\ listed' = NoOutput
    /\ UNCHANGED <<pickerVars, execVars>>

NextSessions ==
    \/ \E limit \in 0..MaxSessions, torn \in TornChoices : Discover(limit, torn)
    \/ \E limit \in 0..MaxSessions, torn \in TornChoices : List(limit, torn)
    \/ \E arg \in NameArgs, name \in NewNames, ok \in BOOLEAN : name_cmd(arg, name, ok)

SpecSessions == InitSessions /\ [][NextSessions]_allVars

\* ----------------------------------------------------------- long titles
\* The same commands over files whose instructions and names reach the
\* title limit.
Repeat(c, n) == [i \in 1..n |-> c]
\* lines of 80 and 81 bytes, of 82 bytes in 41 characters, and of 81 bytes
\* whose 80th byte is inside a character
LongLines ==
    {Repeat("a", TitleMax), Repeat("a", TitleMax + 1),
     Repeat(WideChar, (TitleMax \div 2) + 1),
     <<"a">> \o Repeat(WideChar, TitleMax \div 2)}
LongName == Repeat("B", TitleMax + 1)
TitleFileChoices(s) ==
    UNION {{<<Hdr(s, Rfc3339(s, 0), <<line>>)>>,
            <<Hdr(s, Rfc3339(s, 0), <<line>>), StateLine(Some(LongName))>>}
           : line \in LongLines}
TitleNames == {<<"B">>, LongName}

InitTitles ==
    /\ \E present \in SUBSET (1..Min(MaxFiles, MaxSessions)) :
         \E f \in [{SessionPath(s) : s \in present} ->
                      UNION {TitleFileChoices(s) : s \in 1..MaxSessions}] :
            /\ \A p \in DOMAIN f : f[p] \in TitleFileChoices(p.stem)
            /\ fs = f
    /\ PickerClosed
    /\ ExecInit
    /\ CliInit

NextTitles ==
    \/ \E limit \in 0..MaxSessions : Discover(limit, {})
    \/ \E limit \in 0..MaxSessions : List(limit, {})
    \/ \E arg \in NameArgs, name \in TitleNames, ok \in BOOLEAN : name_cmd(arg, name, ok)

SpecTitles == InitTitles /\ [][NextTitles]_allVars

\* ---------------------------------------------- discovery and CLI: claims

\* files whose first line is a header
HeaderFiles(f) ==
    {s \in 1..MaxSessions :
        /\ Exists(f, SessionPath(s))
        /\ f[SessionPath(s)] # <<>>
        /\ f[SessionPath(s)][1].kind = "header"}
\* ... and whose header timestamp is a timestamp
ValidFiles(f) == {s \in HeaderFiles(f) : f[SessionPath(s)][1].timestamp.valid}
InstantOf(f, s) ==
    f[SessionPath(s)][1].timestamp.wall - f[SessionPath(s)][1].timestamp.off
Stems(out) == [i \in 1..Len(out) |-> out[i].path.stem]
\* stems is the list of the `limit` newest valid files of f, newest first, files
\* of equal instant in walk order
NewestFirst(stems, limit, f) ==
    /\ Len(stems) = Min(limit, Cardinality(ValidFiles(f)))
    /\ \A i \in DOMAIN stems : stems[i] \in ValidFiles(f)
    /\ \A i, j \in DOMAIN stems :
          i < j => \/ InstantOf(f, stems[i]) > InstantOf(f, stems[j])
                   \/ /\ InstantOf(f, stems[i]) = InstantOf(f, stems[j])
                      /\ stems[i] < stems[j]
    /\ \A s \in ValidFiles(f) :
          (\A i \in DOMAIN stems : stems[i] # s) =>
              \A i \in DOMAIN stems : InstantOf(f, stems[i]) >= InstantOf(f, s)

\* C17: the output of discovery (the picker's, and the CLI list when every
\* header carries a timestamp) is the `limit` newest valid sessions, newest
\* creation instant first, sessions of equal instant in discovery order.
C17_DiscoveryNewestFirst ==
    /\ cli_result = "discover" => NewestFirst(Stems(found.out), found.limit, fs)
    /\ (cli_result = "list" /\ ValidFiles(fs) = HeaderFiles(fs))
          => NewestFirst(Stems(listed.out), listed.limit, fs)

\* C18: a file whose first line is no header, or whose header timestamp cannot
\* be parsed, is in neither front end's discovery output; a valid file with no
\* state line is in the picker's output when the limit allows, titled from its
\* instructions or with the placeholder.
C18_DiscoveryExcludesInvalid ==
    /\ cli_result = "discover" =>
          /\ \A i \in DOMAIN found.out : found.out[i].path.stem \in ValidFiles(fs)
          /\ \A s \in ValidFiles(fs) :
                (found.limit >= Cardinality(ValidFiles(fs))
                    /\ Len(fs[SessionPath(s)]) = 1)
                => \E i \in DOMAIN found.out :
                      /\ found.out[i].path = SessionPath(s)
                      /\ found.out[i].title # <<>>
    /\ cli_result = "list" =>
          \A i \in DOMAIN listed.out : listed.out[i].path.stem \in ValidFiles(fs)

\* the title the stated order gives the session in file s
RECURSIVE FirstNonBlankLine(_)
FirstNonBlankLine(instr) ==
    IF instr = <<>> THEN <<>>
    ELSE IF Trim(Head(instr)) # <<>> THEN Trim(Head(instr))
    ELSE FirstNonBlankLine(Tail(instr))
StatedTitle(f, s) ==
    LET name == FoldName(Tail(f[SessionPath(s)]), None)
        line == FirstNonBlankLine(f[SessionPath(s)][1].instructions)
    IN IF IsSome(name) /\ Trim(Unwrap(name)) # <<>> THEN Unwrap(name)
       ELSE IF line # <<>> THEN line
       ELSE NoTitle

\* C19: every title shown by either front end is the folded name when it is
\* not blank, else the first non-blank line of the instructions, trimmed, else
\* "(no title)".
C19_TitleFollowsStatedOrder ==
    /\ \A i \in DOMAIN found.out :
          found.out[i].title = StatedTitle(fs, found.out[i].path.stem)
    /\ \A i \in DOMAIN listed.out :
          listed.out[i].title = StatedTitle(fs, listed.out[i].path.stem)

\* discovered sessions whose id starts with the prefix
MatchingFiles(f, prefix) ==
    {s \in HeaderFiles(f) : StartsWith(IdStr(f[SessionPath(s)][1].id), prefix)}
PrefixArgs == {a \in NameArgs : ~IsSome(a.as_path)}

\* C20: a name command given an id prefix appends to the one matching session
\* (or fails on the write), reports "no match" when no discovered id starts
\* with the prefix and "ambiguous" when several do, and changes no file when
\* it fails.
C20_PrefixResolution ==
    [][(IsSome(cli_arg') /\ Unwrap(cli_arg') \in PrefixArgs) =>
          LET M == MatchingFiles(fs, Unwrap(cli_arg').text) IN
          /\ M = {} => cli_result' = "no_match"
          /\ Cardinality(M) > 1 => cli_result' = "ambiguous"
          /\ Cardinality(M) = 1 =>
                LET p == SessionPath(CHOOSE s \in M : TRUE) IN
                \/ /\ cli_result' = "named"
                   /\ \E name \in NewNames :
                         fs' = [fs EXCEPT ![p] = Append(fs[p], StateLine(Some(name)))]
                \/ cli_result' = "io_error"
          /\ cli_result' # "named" => fs' = fs]_allVars

\* a name command was refused as ambiguous with two sessions discovered, and
\* no line has been appended to any file
C20_AmbiguousPrefixRejected ==
    /\ cli_result = "ambiguous"
    /\ IsSome(cli_arg)
    /\ Unwrap(cli_arg) \in PrefixArgs
    /\ Cardinality(HeaderFiles(fs)) >= 2
    /\ appended = 0
    /\ \A s \in HeaderFiles(fs) : fs[SessionPath(s)] \in FileChoices(s)

\* -------------------------------------------------- session log: claims

\* the name of the last state record of lines that carries one
NamedAt(lines) ==
    {i \in DOMAIN lines : lines[i].kind = "state" /\ IsSome(lines[i].name)}
LastNamed(lines) ==
    IF NamedAt(lines) = {} THEN None
    ELSE lines[CHOOSE i \in NamedAt(lines) : \A j \in NamedAt(lines) : j <= i].name
StateRecordsOf(lines) == SelectSeq(lines, LAMBDA l : l.kind = "state")

\* C21: for every session log the folded name is the name of the last state
\* record carrying one, and it is the same as the fold of the state records
\* alone, with every opaque or unparsable line left out.
C21_FoldIsLastNamed ==
    \A s \in HeaderFiles(fs) :
        LET body == Tail(fs[SessionPath(s)])
            r == read_session_header_and_state(fs, SessionPath(s))
        IN /\ r.ok
           /\ r.name = LastNamed(body)
           /\ FoldName(StateRecordsOf(body), None) = r.name

\* discovery has read a log holding two differently named state records, an
\* opaque line and a later state record without a name, and titled the
\* session with the second name
C21_FoldedOverNoise ==
    /\ cli_result = "discover"
    /\ \E i \in DOMAIN found.out :
          LET body == Tail(fs[found.out[i].path]) IN
          /\ Cardinality({body[k].name : k \in NamedAt(body)}) >= 2
          /\ \E k \in DOMAIN body : body[k].kind = "opaque"
          /\ \E k \in DOMAIN body :
                /\ body[k].kind = "state"
                /\ ~IsSome(body[k].name)
                /\ \A j \in NamedAt(body) : j < k
          /\ found.out[i].title = LastNamed(body)[1]

\* C22: a successful `sessions name` adds exactly one state line at the end of
\* one log and leaves its header line, its earlier lines and every other file
\* as they were; a failed one changes no file; and a reader that meets an
\* unterminated final line returns what it returns for the complete lines.
C22_AppendOnly ==
    /\ [][IF cli_result' = "named" /\ IsSome(cli_arg')
          THEN /\ appended' = appended + 1
               /\ DOMAIN fs' = DOMAIN fs
               /\ \E p \in DOMAIN fs :
                     /\ Len(fs'[p]) = Len(fs[p]) + 1
                     /\ SubSeq(fs'[p], 1, Len(fs[p])) = fs[p]
                     /\ fs'[p][Len(fs'[p])].kind = "state"
                     /\ \A q \in DOMAIN fs \ {p} : fs'[q] = fs[q]
          ELSE fs' = fs /\ appended' = appended]_allVars
    /\ [](cli_result = "discover" =>
             found.out = collect_recent_sessions(fs, found.limit))
    /\ [](cli_result = "list" => listed.out = list_cmd(fs, listed.limit))

\* a name was appended to the log of session 1 and discovery then read that
\* log with an unterminated final line, titling the session with the new name
C22_AppendedThenReadTorn ==
    /\ appended = 1
    /\ cli_result = "discover"
    /\ found.torn = {1}
    /\ Exists(fs, SessionPath(1))
    /\ fs[SessionPath(1)] \notin FileChoices(1)
    /\ \E i \in DOMAIN found.out :
          /\ found.out[i].path = SessionPath(1)
          /\ found.out[i].title \in NewNames

\* ---------------------------------------------------- picker: more claims

\* C23: a confirmed delete puts its own (deleted path, backup path) pair in
\* the undo slot in place of whatever the slot held, the backup of an earlier
\* delete stays on disk unrestored, and the picker keeps running so that a
\* second delete or an undo can follow.
C23_UndoSlotHoldsLatestDelete ==
    [][(/\ ev' = "Enter"
        /\ Mode = "ConfirmDelete"
        /\ ~Exists(fs', Unwrap(confirm_delete_path)))
       => LET target == Unwrap(confirm_delete_path)
          IN /\ last_deleted' = Some(<<target, BackupPath(fs, target)>>)
             /\ IsSome(last_deleted) =>
                   /\ Exists(fs', Unwrap(last_deleted)[2])
                   /\ ~Exists(fs', Unwrap(last_deleted)[1])
             /\ pc' = "running"]_vars

\* the rows displayed for a list of entries under a filter text
RowsFor(es, flt, text) ==
    LET rows == GroupByDate(FilterEntries(es, flt, text), None)
    IN [paths |-> [i \in 1..Len(rows) |-> rows[i].path],
        is_header |-> [i \in 1..Len(rows) |-> rows[i].hdr]]
RowsShown == [paths |-> paths, is_header |-> is_header]
TypedChar(e) == IF e = "Slash" THEN "/" ELSE e

\* C24: in Filtering (and not renaming) a printable character, '/' included,
\* is appended to the filter text, the rows shown afterwards are the rows of
\* the new filter text, and the picker stays in Filtering.
C24_TypingExtendsFilter ==
    [][(/\ filtering
        /\ ~renaming
        /\ ev' \in TextChars \cup {"Slash"})
       => /\ filter_text' = Append(filter_text, TypedChar(ev'))
          /\ RowsShown' = RowsFor(entries', TRUE, filter_text')
          /\ filtering'
          /\ pc' = "running"]_vars

\* paths of the entry rows shown
DisplayedPaths == {paths[i] : i \in {j \in DOMAIN paths : ~is_header[j]}}

\* C25: while Filtering, an entry is displayed exactly when the lower-cased,
\* trimmed filter text is a substring of its lower-cased haystack; with an
\* empty filter text every entry is displayed.
C25_DisplayedIffSubstring ==
    filtering =>
        \A k \in DOMAIN entries :
            (entries[k].path \in DisplayedPaths)
                <=> Contains(Haystack(entries[k]), ToLower(Trim(filter_text)))

\* the local day of the entry shown in row i
RowDay(i) ==
    DayOf(entries[CHOOSE k \in DOMAIN entries : entries[k].path = paths[i]].when)
HeaderRows == {i \in DOMAIN is_header : is_header[i]}

\* C26: while the picker runs, every header row is directly followed by an
\* entry row, every entry row has above it a header with only entries of its
\* own day in between, and no two headers stand for the same day.
C26_RowsGroupedByDay ==
    pc = "running" =>
        /\ \A i \in HeaderRows : i < Len(paths) /\ ~is_header[i + 1]
        /\ \A i \in DOMAIN paths \ HeaderRows :
              \E h \in HeaderRows :
                 /\ h < i
                 /\ \A k \in (h + 1)..i : ~is_header[k] /\ RowDay(k) = RowDay(i)
        /\ \A h1, h2 \in HeaderRows :
              (h1 < h2 /\ h2 < Len(paths)) => RowDay(h1 + 1) # RowDay(h2 + 1)

FirstSelectable(hdr) == CHOOSE i \in Selectable(hdr) : \A j \in Selectable(hdr) : i <= j
LastSelectable(hdr) == CHOOSE i \in Selectable(hdr) : \A j \in Selectable(hdr) : j <= i

\* C27: outside Filtering and Renaming, PageDown (PageUp) selects the row that
\* the header-skipping Down (Up) step reaches when repeated once per visible
\* row, and Home (End) selects the first (last) row that is not a header.
C27_PagingSkipsHeaders ==
    [][(/\ ev' \in {"PageUp", "PageDown", "Home", "End"}
        /\ ~filtering /\ ~renaming)
       => /\ (ev' = "PageDown" =>
                selected_idx' = DownSkipTimes(selected_idx, is_header, Max(visible_rows, 1)))
          /\ (ev' = "PageUp" =>
                selected_idx' = UpSkipTimes(selected_idx, is_header, Max(visible_rows, 1)))
          /\ (ev' = "Home" => selected_idx' = Some(FirstSelectable(is_header)))
          /\ (ev' = "End" => selected_idx' = Some(LastSelectable(is_header)))]_vars

C30_ResizeTouchesOnlyWindow ==
    [][(ev' = "Draw" /\ visible_rows' # visible_rows)
       => /\ UNCHANGED <<modeVars, selected_idx, rowVars, diskVars, exitVars>>
          /\ Mode' = Mode
          /\ pc' = "running"]_vars

\* a redraw while filtering a list longer than the window, scrolled past its
\* first row with a row selected
C30_ResizedWhileFiltering ==
    /\ ev = "Draw"
    /\ pc = "running"
    /\ Mode = "Filtering"
    /\ filter_text # <<>>
    /\ IsSome(selected_idx)
    /\ scroll_top > 0
    /\ visible_rows < Len(paths)

\* -------------------------------------- interrupt controller: more claims
\* C31: whatever u32 process id record_child was given, the value it stores
\* is a process or group id (a positive number), and every signal an interrupt
\* sends is addressed to the negation of the stored value, a strictly
\* negative number naming a process group.
C31_SignalAddressesAGroup ==
    /\ \A n \in DOMAIN recorded : recorded[n] > 0
    /\ \A i \in DOMAIN signals :
          /\ signals[i].target = 0 - recorded[signals[i].gen]
          /\ signals[i].target < 0

\* C32: the result of the signal call is ignored: once kill has been called,
\* delivered or not, the slot is empty and the caller goes on to unlock and
\* return; an interrupt that has returned leaves the slot empty; and an
\* identity whose signal failed is never signalled again.
C32_DeliveryFailureIgnored ==
    /\ xop = "interrupt_kill" =>
          LET s == signals[Len(signals)] IN
            /\ xpc[s.by] = "int_unlock"
            /\ Held(s.by)
            /\ pgid = None
    /\ xop = "interrupt_done" => pgid = None
    /\ \A i \in DOMAIN signals :
          ~signals[i].ok => SignalsFor(signals[i].gen) = {i}

\* the only signal sent could not be delivered, the child is still tracked
\* by the spawn path, and a later interrupt has returned without sending
C32_FailedThenNoRetry ==
    /\ xop = "interrupt_noop"
    /\ Len(signals) = 1
    /\ ~signals[1].ok
    /\ signals[1].gen = Len(recorded)
    /\ cleared < Len(recorded)
    /\ pgid = None

\* ------------------------------------------------------- titles: claims
\* the one file a rename changed
RenamedPath(f, g) == CHOOSE p \in DOMAIN f : g[p] # f[p]
TitlesOf(out) == [i \in 1..Len(out) |-> out[i].title]
PathsOf(out) == [i \in 1..Len(out) |-> out[i].path]

\* C33: after `sessions name` has appended a non-empty name N to valid
\* session S, discovery returns the same sessions in the same order as before
\* the rename, with S titled N and every other title unchanged.
C33_RenameThenDiscover ==
    [][(cli_result' = "named" /\ fs' # fs
           /\ ~collect_recent_sessions_panics(fs)
           /\ ~collect_recent_sessions_panics(fs'))
       => LET before == collect_recent_sessions(fs, MaxSessions)
              after == collect_recent_sessions(fs', MaxSessions)
              S == RenamedPath(fs, fs')
              N == Unwrap(fs'[S][Len(fs'[S])].name)
          IN /\ PathsOf(after) = PathsOf(before)
             /\ \A i \in DOMAIN after :
                   after[i].title = IF after[i].path = S THEN N
                                    ELSE before[i].title]_allVars

\* the title the truncation rule gives the session in file s: a name as it
\* is, an instruction line cut to TitleMax characters with a marker
TruncationMarker == "..."
CutWithMarker(line) ==
    IF Len(line) > TitleMax
    THEN SubSeq(line, 1, TitleMax) \o <<TruncationMarker>>
    ELSE line
CutTitle(f, s) ==
    LET name == FoldName(Tail(f[SessionPath(s)]), None)
        line == FirstNonBlankLine(f[SessionPath(s)][1].instructions)
    IN IF IsSome(name) /\ Trim(Unwrap(name)) # <<>> THEN Unwrap(name)
       ELSE IF line # <<>> THEN CutWithMarker(line)
       ELSE NoTitle

\* C34: in the output of either front end a title derived from instructions
\* longer than 80 characters is its first 80 characters followed by a
\* truncation marker, one of at most 80 characters is the line unchanged, and
\* a title taken from the state name is the name in full.
C34_TitleCutAtEightyWithMarker ==
    /\ \A i \in DOMAIN found.out :
          found.out[i].title = CutTitle(fs, found.out[i].path.stem)
    /\ \A i \in DOMAIN listed.out :
          listed.out[i].title = CutTitle(fs, listed.out[i].path.stem)

\* C35: every signal an interrupt sends is for an identity whose process has
\* not exited: no interrupt signals in the window between the child's exit
\* and the clear() that follows it.
C35_NoSignalAfterExit ==
    [][signals' # signals =>
          signals'[Len(signals')].gen > exited]_allVars

\* C36: in the build with process groups a record_child call with no pid
\* changes nothing of the controller: the slot, the mutex, the recorded
\* identities and the signals sent are as before, so a tracked identity stays
\* the one the next interrupt takes and an empty slot stays empty.
C36_RecordNoneLeavesSlot ==
    [][xop' \in {"record_child_none", "record_child_flag"} =>
          UNCHANGED <<pgid, lock, xloc, signals, recorded, cleared>>]_allVars

\* record_child(None) has just returned while a live child is tracked
C36_NoneWhileTracked ==
    /\ xop = "record_child_none"
    /\ IsSome(pgid)
    /\ Unwrap(pgid) = recorded[Len(recorded)]
    /\ exited < Len(recorded)
    /\ SignalsFor(Len(recorded)) = {}

\* C37: after the same calls the flag of the build without process groups is
\* true exactly when the slot of the build with them holds an identity.
C37_FlagMatchesSlot ==
    xpc[SpawnThread] # "rec_flag" => (running <=> IsSome(pgid))

\* ------------------------------------------------- picker: delete target
\* C38: while a delete awaits confirmation (and no other mode is pending)
\* its target is the selected entry's path, so the file a confirming Enter
\* removes is the entry selected at that moment.
C38_DeleteTargetIsSelection ==
    /\ [](pc = "running" /\ Mode = "ConfirmDelete" /\ Cardinality(ActiveModes) = 1
            => selected_path = confirm_delete_path)
    /\ [][(ev' = "Enter" /\ Mode = "ConfirmDelete" /\ Cardinality(ActiveModes) = 1
             /\ fs' # fs)
          => /\ IsSome(selected_path)
             /\ ~Exists(fs', Unwrap(selected_path))]_vars

\* -------------------------------------------------- picker: skip loops
\* the row the loop looks at after k steps
RowAfterUp(k) ==
    LET s == UpTimes(selected_idx, Len(paths), k) IN IF IsSome(s) THEN Unwrap(s) ELSE 0
RowAfterDown(k) ==
    LET s == DownTimes(selected_idx, Len(paths), k) IN IF IsSome(s) THEN Unwrap(s) ELSE 0

\* C39: in every picker state a non-empty row list has a non-header row, and
\* the header-skipping loop of Up and of Down ends within one pass: after at
\* most max(rows, 1) steps it stands on a row that is not a header.
C39_SkipLoopTerminates ==
    /\ Len(is_header) = Len(paths)
    /\ paths # <<>> => \E i \in DOMAIN is_header : ~is_header[i]
    /\ \E k \in 1..Max(Len(paths), 1) : ~IsHeaderAt(is_header, RowAfterUp(k))
    /\ \E k \in 1..Max(Len(paths), 1) : ~IsHeaderAt(is_header, RowAfterDown(k))

\* Up from the first entry of a grouped list has wrapped past the header in
\* row 0 to the last row
C39_UpWrappedPastHeader ==
    /\ ev = "Up"
    /\ pc = "running"
    /\ Len(paths) >= 3
    /\ is_header[1]
    /\ selected_idx = Some(Len(paths) - 1)

\* ------------------------------------------ picker over earlier backups
\* The picker started in a directory where earlier deletes of session 1 left
\* backups behind and the session file is present again.
FirstBackup(p) == SetExtension(p, <<"deleted">>)
SecondBackup(p) == SetExtension(FirstBackup(p), <<"deleted", ToString(1)>>)
OldBackupChoices ==
    {{}, {FirstBackup(SessionPath(1))},
     {FirstBackup(SessionPath(1)), SecondBackup(SessionPath(1))}}
BackupContent == <<HeaderLine(1, 0, "other", <<>>)>>
WithBackups(f, old) ==
    [p \in DOMAIN f \cup old |-> IF p \in DOMAIN f THEN f[p] ELSE BackupContent]

InitDelete ==
    \E n \in 1..Min(MaxFiles, MaxSessions), h \in 1..MaxHeight, old \in OldBackupChoices :
      \E m \in 0..n, tie \in BOOLEAN :
        /\ fs = WithBackups(InitFs(n, m, tie), old)
        /\ LET es == collect_recent_sessions(WithBackups(InitFs(n, m, tie), old), Limit)
               len == Len(es)
               sel == clamp_selection(Some(FirstCurrent(es)), len)
           IN /\ entries = es
              /\ paths = [i \in 1..len |-> es[i].path]
              /\ is_header = [i \in 1..len |-> FALSE]
              /\ selected_idx = sel
              /\ visible_rows = h
              /\ scroll_top = ensure_visible(sel, ensure_visible(sel, 0, len, len),
                                             len, Min(h, Max(len, 1)))
              /\ pc = IF len = 0 THEN "returned" ELSE "running"
        /\ filtering = FALSE
        /\ filter_text = <<>>
        /\ renaming = FALSE
        /\ rename_text = <<>>
        /\ confirm_resume_path = None
        /\ confirm_delete_path = None
        /\ last_deleted = None
        /\ last_action_hint = None
        /\ selected = None
        /\ done = FALSE
        /\ ev = "start"
        /\ ExecInit
        /\ CliInit

SpecDelete == InitDelete /\ [][Next]_vars

\* C40: a confirmed delete that changes the files moves the target, and only
\* the target, to a backup path that did not exist (so no earlier backup is
\* overwritten), that keeps the session's stem and is not a rollout name; every
\* other file is as before and discovery afterwards lists neither path.
C40_BackupPathIsFresh ==
    [][(ev' = "Enter" /\ ~renaming /\ ~filtering /\ IsSome(confirm_delete_path)
           /\ fs' # fs)
       => LET target == Unwrap(confirm_delete_path) IN
          \E backup \in DOMAIN fs' :
             /\ ~Exists(fs, backup)
             /\ DOMAIN fs' = (DOMAIN fs \ {target}) \cup {backup}
             /\ fs'[backup] = fs[target]
             /\ \A p \in DOMAIN fs \ {target} : fs'[p] = fs[p]
             /\ backup.stem = target.stem
             /\ ~IsRolloutName(backup)
             /\ last_deleted' = Some(<<target, backup>>)
             /\ LET after == collect_recent_sessions(fs', Limit)
                IN \A i \in DOMAIN after : after[i].path \notin {target, backup}]_vars

\* session 1 was deleted while two earlier backups of it existed: the third
\* name tried was free and both earlier backups are still there
C40_ThirdNameChosen ==
    /\ ev = "Enter"
    /\ IsSome(last_deleted)
    /\ Unwrap(last_deleted)[1] = SessionPath(1)
    /\ Unwrap(last_deleted)[2] \notin {FirstBackup(SessionPath(1)),
                                       SecondBackup(SessionPath(1))}
    /\ Exists(fs, Unwrap(last_deleted)[2])
    /\ ~Exists(fs, SessionPath(1))
    /\ Exists(fs, FirstBackup(SessionPath(1)))
    /\ fs[FirstBackup(SessionPath(1))] = BackupContent
    /\ Exists(fs, SecondBackup(SessionPath(1)))
    /\ fs[SecondBackup(SessionPath(1))] = BackupContent

====
